---- MODULE Spec2Model ----
(***************************************************************************)
(* The month-by-month backfill pipeline of docker/init-data.py: the         *)
(* processing ledger, the chunk loader with its duplicate short-circuit     *)
(* and row-level fallback, the star-schema loader and the invalid-record    *)
(* store.  Tables are bags (a table may hold equal rows unless a constraint *)
(* forbids it); the pipeline is a sequence of steps of load_trip_data, any  *)
(* of which an external kill may follow.                                    *)
(***************************************************************************)
EXTENDS Integers, Sequences, FiniteSets, Bags, TLC

\* ---------------------------------------------------------------- bounds
\* Number of pipeline runs (process starts) explored.
MaxRuns == 2
\* DATA_CHUNK_SIZE is drawn from 1..MaxChunkSize.
MaxChunkSize == 3
\* Number of losses of the warehouse connection explored (SpecInfra).
MaxOutages == 1
\* Number of calls of load_taxi_zones explored (SpecReference).
MaxRefreshes == 4

\* ---------------------------------------------------------------- inputs
M1 == <<2024, 1>>
M2 == <<2024, 2>>
Months == {M1, M2}
\* yellow_tripdata_2025-01.parquet, the file loaded when BACKFILL_MONTHS is empty.
Legacy == <<2025, 1>>
Files == Months \cup {Legacy}

\* Natural keys held by dim_locations, dim_vendor, dim_payment_type and
\* dim_rate_code; any other id is a cache miss.  The location ids are those of
\* the reference file; the others are the ids of the INSERTs of load_taxi_zones.
DimLocationIds == {1, 2}
DimVendorIds == {1, 2}
DimPaymentTypes == 1..6
DimRateCodeIds == 1..6

\* A row of taxi_zone_lookup.csv: its locationid and its zone (the zone stands
\* for the other columns: borough, service_zone).
ZoneRow(id, name) == [locationid |-> id, zone |-> name]

\* taxi_zone_lookup.csv as the runs of the trip pipeline find it.
StandardZones == {ZoneRow(id, "zone") : id \in DimLocationIds}

\* The contents of taxi_zone_lookup.csv over the refreshes of the reference data:
\* as published, with zone 2 withdrawn, with zone 2 renamed, with zone 1
\* renamed, with a new zone 3, and with zone 2 replaced by zone 3.
ZoneFiles ==
    {StandardZones,
     {ZoneRow(1, "zone")},
     {ZoneRow(1, "zone"), ZoneRow(2, "renamed")},
     {ZoneRow(1, "renamed"), ZoneRow(2, "zone")},
     StandardZones \cup {ZoneRow(3, "zone")},
     {ZoneRow(1, "zone"), ZoneRow(3, "zone")}}
\* The partition window of load_chunk_to_star_schema_optimized: [2020, 2030).
WindowFirstYear == 2020
WindowEndYear == 2030

\* A trip row: its columns (total_amount stands for the remaining measures) and
\* `rejects`, the error the warehouse raises when the row is inserted into
\* yellow_taxi_trips ("none" when the row satisfies the table's constraints).
TripRow(pu, do, yr, amt, rej) ==
    [pulocationid |-> pu, dolocationid |-> do, tpep_pickup_year |-> yr,
     total_amount |-> amt, vendorid |-> 1, payment_type |-> 1, ratecodeid |-> 1,
     rejects |-> rej]

G1 == TripRow(1, 2, 2024, 10, "none")
G2 == TripRow(1, 2, 2024, 20, "none")
G3 == TripRow(1, 2, 2024, 30, "none")
U1 == TripRow(999, 2, 2024, 40, "none")
D1 == TripRow(1, 2, 2019, 50, "none")
X1 == TripRow(1, 2, 2024, 60, "check")
Y1 == TripRow(1, 2, 2024, 70, "datatype")
\* Rows whose vendor, payment type or rate code is in no dimension table.
V1 == [TripRow(1, 2, 2024, 80, "none") EXCEPT !.vendorid = 9]
P1 == [TripRow(1, 2, 2024, 90, "none") EXCEPT !.payment_type = 9]
R1 == [TripRow(1, 2, 2024, 95, "none") EXCEPT !.ratecodeid = 99]

\* The monthly source files offered by the trip data source, by scenario.
SourceScenarios ==
    { [m \in Files |-> IF m = M1 THEN <<G1, U1, G2>> ELSE IF m = M2 THEN <<G2, G3>> ELSE <<>>],
      [m \in Files |-> IF m = M1 THEN <<G1, G1, G2>> ELSE IF m = M2 THEN <<D1, G1>> ELSE <<>>],
      [m \in Files |-> IF m = M1 THEN <<X1, G1, G2>> ELSE IF m = M2 THEN <<X1>> ELSE <<>>],
      [m \in Files |-> IF m = M1 THEN <<G1, Y1, U1>> ELSE IF m = M2 THEN <<U1, D1>> ELSE <<>>],
      [m \in Files |-> IF m = M1 THEN <<G1, V1, U1>> ELSE IF m = M2 THEN <<P1, R1>> ELSE <<>>],
      [m \in Files |-> IF m = M1 THEN <<G1>> ELSE IF m = M2 THEN <<G2>> ELSE <<G1, G3, G1>>] }

\* A BACKFILL_MONTHS string, as the sequence of its pieces between commas, each
\* the sequence of its pieces between dashes.  A piece is a decimal integer, the
\* word `all`, `last_<n>_months`, `last_` followed by no integer, any other text,
\* or the empty text.
Num(n) == [kind |-> "int", value |-> n]
Word == [kind |-> "word", value |-> 0]
All == [kind |-> "all", value |-> 0]
Last(n) == [kind |-> "last", value |-> n]
LastBad == [kind |-> "last_bad", value |-> 0]
Empty == [kind |-> "empty", value |-> 0]
\* The token `<y>-<m>`.
Tok(m) == <<Num(m[1]), Num(m[2])>>
\* The empty string: ''.split(',') = [''] and ''.split('-') = [''].
EmptyConfig == << <<Empty>> >>

\* The n of `last_30000_months`: 30 * (n - 1) days before any date of the runs
\* is before the first day datetime can hold.
FarLast == 30000

\* BACKFILL_MONTHS values of the runs: `2024-01`, `2024-02`,
\* `2024-02,2024-01,2024-02`, `2024-02,abc,2024-01`, `abc`, `last_x_months`,
\* `last_30000_months` and the empty string.
BackfillConfigs ==
    { <<Tok(M1)>>, <<Tok(M2)>>, <<Tok(M2), Tok(M1), Tok(M2)>>,
      <<Tok(M2), <<Word>>, Tok(M1)>>, << <<Word>> >>, << <<LastBad>> >>,
      << <<Last(FarLast)>> >>, EmptyConfig }

\* /sql-scripts/init-scripts and the reference data source, as a run finds them.
ScriptDirs == {"missing", "no_scripts", "scripts"}
ZoneSources == {"ok", "download_fails", "load_fails"}

\* datetime.now() of the runs, as <<year, month, day>>.
RunDate == <<2024, 3, 15>>

\* Inputs of the planner taken alone: tokens `2024-01`, `2024-02`, `2023-12`,
\* `abc`, `2024`, `2024-x1`, `2024-01-05` and the empty token; specifications of
\* one to three tokens, `all`, `last_<n>_months`, `last_x_months`; four dates.
PlannerTokens ==
    { Tok(M1), Tok(M2), Tok(<<2023, 12>>), <<Word>>, <<Num(2024)>>, <<Num(2024), Word>>,
      <<Num(2024), Num(1), Num(5)>>, <<Empty>> }
PlannerLists ==
    {<<a>> : a \in PlannerTokens}
      \cup {<<a, b>> : a \in PlannerTokens, b \in PlannerTokens}
      \cup {<<a, b, c>> : a \in PlannerTokens, b \in PlannerTokens, c \in PlannerTokens}
\* Specifications with the tokens `2024-13` and `2024-00`, alone and next to
\* `2024-01`.
OutOfRangeLists ==
    { <<Tok(<<2024, 13>>)>>, <<Tok(<<2024, 0>>)>>,
      <<Tok(<<2024, 13>>), Tok(M1)>>, <<Tok(M1), Tok(<<2024, 0>>)>>,
      <<Tok(<<2024, 13>>), Tok(M1), Tok(<<2024, 0>>)>> }
PlannerConfigs ==
    PlannerLists \cup OutOfRangeLists \cup {<< <<All>> >>, << <<LastBad>> >>}
        \cup {<< <<Last(n)>> >> : n \in -1..4}
PlannerDates == {<<2024, 3, 15>>, <<2024, 3, 31>>, <<2024, 1, 1>>, <<2023, 12, 31>>}

VARIABLES
    source,         \* the files of the trip data source, per month
    current_date,   \* datetime.now(), as <<year, month, day>>
    backfill_config, \* BACKFILL_MONTHS of the current run (<<>> between runs)
    fact_keys_not_null, \* fact_taxi_trips declares its vendor, payment type and
                    \* rate code keys NOT NULL (the table definition of the warehouse)
    fact_error,     \* the text of the error of fact_taxi_trips refusing a row: it
                    \* names the partition of the row as the warehouse has named it
    disk,           \* /sql-scripts/data/yellow: "absent" | "partial" | "complete"
    ledger,         \* data_processing_log: per month, the statuses of its rows
    trips,          \* yellow_taxi_trips: bag of row hashes
    fact,           \* fact_taxi_trips: bag of rows (keys, pickup year, original_row_hash)
    invalid,        \* yellow_taxi_trips_invalid: bag of records
    quality,        \* data_quality_monitor: bag of records
    index_builds,   \* calls of create_partition_indexes
    db_up,          \* the warehouse connection works
    outages,        \* number of losses of the connection so far
    run,            \* number of runs started
    series,         \* hasher alone: the Series given to calculate_row_hash
    digest,         \* hasher alone: <<its hash>> once computed
    series_2,       \* hasher alone: a second Series
    digest_2,       \* hasher alone: <<its hash>>
    script_dir,     \* /sql-scripts/init-scripts as the current run finds it
    zone_source,    \* the reference data as the current run finds it
    exit_code,      \* exit code of the last run of main that returned (<<>>: none)
    trip_result,    \* what load_trip_data returned in that run (<<>>: not called)
    pc,             \* position of main: "idle" | "schema" | "zones" | "plan" | "check" |
                    \* "download" | "start" | "load" | "end" | "verify"
    months_to_load, \* the plan of the current run
    pos,            \* index of the current month in the plan
    chunk_size,     \* DATA_CHUNK_SIZE of the current run
    chunk_no,       \* number (from 1) of the next chunk of the current month
    loaded_rows,    \* load_single_parquet_file: rows loaded so far in the month
    total_rows,     \* load_trip_data: rows loaded so far in the run
    chunk_results,  \* what the last call of load_chunk_with_error_handling returned
    infra_failed,   \* history: a chunk of the current month was loaded without connection
    DIMENSION_CACHE, \* the module-level dict of the running process
    lookup_tables,  \* taxi_zone_lookup, rate_code_lookup, payment_type_lookup, vendor_lookup
    dim_tables,     \* dim_locations, dim_rate_code, dim_payment_type, dim_vendor
    refreshes,      \* reference data alone: calls of load_taxi_zones so far
    refreshed       \* reference data alone: <<what the last call returned>>

vars == <<source, current_date, fact_keys_not_null, fact_error, disk, ledger, trips, fact, invalid, quality, index_builds, db_up, outages,
          run, series, digest, series_2, digest_2, script_dir, zone_source, exit_code, trip_result, pc, backfill_config, months_to_load, pos, chunk_size, chunk_no, loaded_rows,
          total_rows, chunk_results, infra_failed, DIMENSION_CACHE, lookup_tables, dim_tables, refreshes, refreshed>>

connection == <<db_up, outages>>
hasher == <<series, digest, series_2, digest_2>>
reference == <<lookup_tables, dim_tables, refreshes, refreshed>>
setup == <<script_dir, zone_source>>
returned == <<exit_code, trip_result>>
warehouse == <<ledger, trips, fact, invalid, quality, index_builds>>
memory == <<backfill_config, months_to_load, pos, chunk_size, chunk_no, loaded_rows, total_rows,
            chunk_results, infra_failed, DIMENSION_CACHE>>

\* ------------------------------------------------------------ RowHasher
\* calculate_row_hash: the normalized column values joined in column-name order.
calculate_row_hash(row) ==
    <<row.dolocationid, row.payment_type, row.pulocationid, row.ratecodeid,
      row.total_amount, row.tpep_pickup_year, row.vendorid>>

WithHash(row) ==
    [c \in DOMAIN row \cup {"row_hash"} |->
        IF c = "row_hash" THEN calculate_row_hash(row) ELSE row[c]]

\* DataFrame.drop_duplicates(subset=['row_hash'], keep='last').
RECURSIVE drop_duplicates_keep_last(_)
drop_duplicates_keep_last(df) ==
    IF df = <<>> THEN <<>>
    ELSE LET back == drop_duplicates_keep_last(Tail(df))
         IN  IF \E i \in 1..Len(back) : back[i].row_hash = Head(df).row_hash
             THEN back
             ELSE <<Head(df)>> \o back

\* DataFrame.drop_duplicates(subset=['row_hash'], keep='first').
RECURSIVE drop_duplicates(_)
drop_duplicates(df) ==
    IF df = <<>> THEN <<>>
    ELSE LET front == drop_duplicates(SubSeq(df, 1, Len(df) - 1))
             last == df[Len(df)]
         IN  IF \E i \in 1..Len(front) : front[i].row_hash = last.row_hash
             THEN front
             ELSE Append(front, last)

\* pd.read_parquet: the rows of the file under a RangeIndex.  Each row carries its
\* label (`index`, from 0), which iloc, boolean masks and drop_duplicates keep.
read_parquet(file) ==
    [i \in 1..Len(file) |->
        [c \in DOMAIN file[i] \cup {"index"} |-> IF c = "index" THEN i - 1 ELSE file[i][c]]]

add_row_hash_column(df) ==
    drop_duplicates([i \in 1..Len(df) |-> WithHash(df[i])])

\* ------------------------------------------- RowHasher, on any pandas Series
\* A text is the sequence of its characters.  A value of a Series is a record:
\* `type` is "none" (None), "nan" (float nan), "nat" (pd.NaT), "int", "float",
\* "timestamp" or "str"; `num` is the integer of an int, the value of a float in
\* units of 10^-7, the milliseconds since midnight of a Timestamp of 2024-01-15;
\* `text` is the text of a str.  A column label is a str or an int.
NoneValue == [type |-> "none", num |-> 0, text |-> <<>>]
NaN == [type |-> "nan", num |-> 0, text |-> <<>>]
NaT == [type |-> "nat", num |-> 0, text |-> <<>>]
IntValue(n) == [type |-> "int", num |-> n, text |-> <<>>]
FloatValue(units) == [type |-> "float", num |-> units, text |-> <<>>]
Timestamp(ms) == [type |-> "timestamp", num |-> ms, text |-> <<>>]
Str(text) == [type |-> "str", num |-> 0, text |-> text]

\* The characters of the texts, in code point order.
Alphabet ==
    <<" ", "-", ".", "0", "1", "2", "3", "4", "5", "6", "7", "8", "9", ":", "a", "b", "c", "|">>
ord(c) == CHOOSE i \in 1..Len(Alphabet) : Alphabet[i] = c

\* str(n) of a non-negative int, and the same padded with zeros to a width.
RECURSIVE Digits(_)
Digits(n) ==
    IF n < 10 THEN <<Alphabet[n + 4]>> ELSE Append(Digits(n \div 10), Alphabet[(n % 10) + 4])
RECURSIVE Padded(_, _)
Padded(n, width) ==
    IF width = 0 THEN <<>> ELSE Append(Padded(n \div 10, width - 1), Alphabet[(n % 10) + 4])
RECURSIVE StripZeros(_)
StripZeros(text) ==
    IF Len(text) > 1 /\ text[Len(text)] = "0"
    THEN StripZeros(SubSeq(text, 1, Len(text) - 1))
    ELSE text

\* str(value) of an int
str_int(n) == IF n < 0 THEN <<"-">> \o Digits(-n) ELSE Digits(n)

\* f"{value:.6f}" of a float >= 0 whose seventh decimal is not 5
format_6f(units) ==
    LET micro == (units + 5) \div 10
    IN  Digits(micro \div 1000000) \o <<".">> \o Padded(micro % 1000000, 6)

\* str(value) of a float >= 0.0001 with at most seven decimals
str_float(units) ==
    Digits(units \div 10000000) \o <<".">> \o StripZeros(Padded(units % 10000000, 7))

\* value.strftime('%Y-%m-%d %H:%M:%S')
strftime(ms) ==
    LET seconds == ms \div 1000
    IN  <<"2", "0", "2", "4", "-", "0", "1", "-", "1", "5", " ">>
            \o Padded(seconds \div 3600, 2) \o <<":">>
            \o Padded((seconds \div 60) % 60, 2) \o <<":">>
            \o Padded(seconds % 60, 2)

\* str(value) of a Timestamp
str_timestamp(ms) ==
    strftime(ms) \o (IF ms % 1000 = 0 THEN <<>> ELSE <<".">> \o Padded((ms % 1000) * 1000, 6))

\* pd.isna(value) or value is None
isna(value) == value.type \in {"none", "nan", "nat"}

\* The element appended to hash_parts for one value.
hash_part(value) ==
    IF isna(value) THEN <<>>
    ELSE IF value.type = "int" THEN str_int(value.num)
    ELSE IF value.type = "float" THEN format_6f(value.num)
    ELSE IF value.type = "timestamp" THEN strftime(value.num)
    ELSE value.text

\* str(v) if not pd.isna(v) else ''
fallback_part(value) ==
    IF isna(value) THEN <<>>
    ELSE IF value.type = "int" THEN str_int(value.num)
    ELSE IF value.type = "float" THEN str_float(value.num)
    ELSE IF value.type = "timestamp" THEN str_timestamp(value.num)
    ELSE value.text

\* '|'.join(parts)
RECURSIVE join(_)
join(parts) ==
    IF parts = <<>> THEN <<>>
    ELSE IF Len(parts) = 1 THEN parts[1]
    ELSE parts[1] \o <<"|">> \o join(Tail(parts))

\* a < b for two texts
RECURSIVE text_less(_, _)
text_less(a, b) ==
    IF b = <<>> THEN FALSE
    ELSE IF a = <<>> THEN TRUE
    ELSE IF a[1] # b[1] THEN ord(a[1]) < ord(b[1])
    ELSE text_less(Tail(a), Tail(b))

\* a < b for two column labels of one type
label_less(a, b) == IF a.type = "int" THEN a.num < b.num ELSE text_less(a.text, b.text)

\* sorted(row.index) raises TypeError: an int label is compared with a str label.
sort_raises(row) == \E i, j \in 1..Len(row) : row[i].name.type # row[j].name.type

\* The positions of the columns of the row taken in S, in the order of sorted().
RECURSIVE sorted_positions(_, _)
sorted_positions(row, S) ==
    IF S = {} THEN <<>>
    ELSE LET first == CHOOSE i \in S :
                          \A j \in S \ {i} :
                              \/ label_less(row[i].name, row[j].name)
                              \/ (~label_less(row[j].name, row[i].name) /\ i < j)
         IN  <<first>> \o sorted_positions(row, S \ {first})

\* row_string of the try block
row_string(row) ==
    LET order == sorted_positions(row, 1..Len(row))
    IN  join([k \in 1..Len(row) |-> hash_part(row[order[k]].value)])

\* fallback_string of the except block: the values in the order of row.values
fallback_string(row) == join([k \in 1..Len(row) |-> fallback_part(row[k].value)])

\* hashlib.sha256(...).hexdigest(), one digest per text
sha256(text) == [sha256 |-> text]

\* calculate_row_hash on a Series given as the sequence of its (label, value)
\* pairs in the order of its index.
series_row_hash(row) ==
    IF sort_raises(row) THEN sha256(fallback_string(row)) ELSE sha256(row_string(row))

\* The Series given to the hasher taken alone: two columns labelled `a`, `b` or
\* 1, in any order, with values None, nan, '', 1, '1', 'a', 'c', 'a|b', 'b|c',
\* 0.1234561, 0.1234564, 10:00:00 and 10:00:00.500.
HasherLabels ==
    { [type |-> "str", num |-> 0, text |-> <<"a">>], [type |-> "str", num |-> 0, text |-> <<"b">>],
      [type |-> "int", num |-> 1, text |-> <<>>] }
HasherValues ==
    { NoneValue, NaN, Str(<<>>), IntValue(1), Str(<<"1">>), Str(<<"a">>), Str(<<"c">>),
      Str(<<"a", "|", "b">>), Str(<<"b", "|", "c">>), FloatValue(1234561), FloatValue(1234564),
      Timestamp(36000000), Timestamp(36000500) }
HasherRows ==
    { << [name |-> ls[1], value |-> v1], [name |-> ls[2], value |-> v2] >> :
          ls \in {p \in HasherLabels \X HasherLabels : p[1] # p[2]},
          v1 \in HasherValues, v2 \in HasherValues }

\* ------------------------------------------------------------ warehouse
\* The text of a warehouse error, as the set of the keywords of
\* load_chunk_with_error_handling that occur in it.  `echo`: the driver appends
\* the failing statement, INSERT INTO nyc_taxi.yellow_taxi_trips (..., row_hash),
\* to the text of the error.
WarehouseMessage(kind, echo) ==
    (CASE kind = "unique"   -> {"duplicate key", "unique constraint"}
       [] kind = "check"    -> {"check constraint"}
       [] kind = "datatype" -> {"invalid input"}
       [] OTHER             -> {"connection"})
    \cup (IF echo THEN {"row_hash"} ELSE {})

\* What the texts of the errors of one call carry: the statement after an error
\* of a statement that was sent and refused (statement), and after a failure of
\* the connection (connect), where the statement may not have been sent.
Echoes == [connect : BOOLEAN, statement : BOOLEAN]

BagOfHashes(rows) ==
    LET hs == {rows[i].row_hash : i \in 1..Len(rows)}
    IN  [h \in hs |-> Cardinality({i \in 1..Len(rows) : rows[i].row_hash = h})]

\* Row i of an INSERT is refused when the table's constraints refuse its content,
\* or when its row_hash is already stored or occurs earlier in the statement
\* (UNIQUE (row_hash), tests/test_data_loading.py).
Refused(table, rows, i) ==
    \/ rows[i].rejects # "none"
    \/ BagIn(rows[i].row_hash, table)
    \/ \E j \in 1..(i - 1) : rows[j].row_hash = rows[i].row_hash

\* DataFrame.to_sql(..., if_exists='append', method='multi'): one statement in one
\* transaction.  The first refused row decides the error and nothing is stored.
to_sql(table, rows, up, echo) ==
    IF ~up THEN [ok |-> FALSE, table |-> table, error |-> WarehouseMessage("connection", echo.connect)]
    ELSE IF \E i \in 1..Len(rows) : Refused(table, rows, i)
    THEN LET i == CHOOSE k \in 1..Len(rows) :
                     /\ Refused(table, rows, k)
                     /\ \A j \in 1..(k - 1) : ~Refused(table, rows, j)
             kind == IF rows[i].rejects # "none" THEN rows[i].rejects ELSE "unique"
         IN  [ok |-> FALSE, table |-> table, error |-> WarehouseMessage(kind, echo.statement)]
    ELSE [ok |-> TRUE, table |-> table (+) BagOfHashes(rows), error |-> {}]

\* One call of load_chunk_with_error_handling or of load_taxi_zones runs its
\* statements one after the other, each on a connection taken from the engine;
\* db.stmts counts the statements the call has run so far.  The warehouse during
\* the call, conn: it is conn.up for the first conn.flips_after statements, the
\* opposite from then to statement conn.back_after, and conn.up again afterwards.
connected(db, conn) ==
    IF db.stmts < conn.flips_after THEN conn.up
    ELSE IF db.stmts < conn.back_after THEN ~conn.up
    ELSE conn.up

\* The statement of a call has been sent, whatever came of it.
tick(db) == [db EXCEPT !.stmts = @ + 1]

\* A transaction of n statements on one connection (`with engine.begin()`): the
\* statements run until one fails; it is committed when none did.
transaction(db, n, conn) ==
    LET ok(i) == \A j \in 0..(i - 1) : connected([db EXCEPT !.stmts = @ + j], conn)
        done == CHOOSE i \in 0..n : ok(i) /\ (i < n => ~ok(i + 1))
    IN  [db |-> [db EXCEPT !.stmts = @ + (IF done < n THEN done + 1 ELSE n)],
         committed |-> done = n]

\* The most statements one call of load_chunk_with_error_handling runs: the bulk
\* insert, three per row of the fallback (the row, its fact row, its invalid
\* record), the quality record and the four SELECTs of populate_dimension_cache.
ChunkStatements == 3 * MaxChunkSize + 2 + 4

\* The most statements one call of load_taxi_zones runs: the five TRUNCATEs, the
\* zones, the shapes, the three INSERTs of the lookup tables, the four INSERTs of
\* populate_star_schema_dimensions, a count and a quality record per dimension
\* table, the commit and the quality record of a failure.
ZoneStatements == 5 + 1 + 1 + 3 + 4 + 2 * 4 + 1 + 1

\* More statements than any call runs.
MaxStatements == ChunkStatements + ZoneStatements

\* The warehouse staying as it is for a whole call.
steady(up) == [up |-> up, flips_after |-> MaxStatements, back_after |-> MaxStatements]

\* The warehouse changing after k statements of a call and, when back is less
\* than MaxStatements, changing back after `back` statements.
flips(up, k, back) == [up |-> up, flips_after |-> k, back_after |-> back]

\* record_quality_metrics: appends one record; a failure is logged and swallowed.
record_quality_metrics(db, metrics, conn) ==
    IF connected(db, conn)
    THEN [db EXCEPT !.quality = @ (+) SetToBag({metrics}), !.stmts = @ + 1]
    ELSE [db EXCEPT !.stmts = @ + 1]

\* store_invalid_row: appends one record; a failure is logged and swallowed.
store_invalid_row(db, row, source_file, chunk_number, row_number_in_chunk, error_message, error_type, conn) ==
    IF connected(db, conn)
    THEN [db EXCEPT !.invalid = @ (+) SetToBag({
             [source_file |-> source_file, chunk_number |-> chunk_number,
              row_number_in_chunk |-> row_number_in_chunk,
              row_hash |-> row.row_hash, error_message |-> error_message,
              error_type |-> error_type]}),
                    !.stmts = @ + 1]
    ELSE [db EXCEPT !.stmts = @ + 1]

\* ---------------------------------------------------------- star schema
\* The text of a NOT NULL violation, before the names the warehouse puts in it.
NotNullViolation == {"not-null constraint"}

\* DIMENSION_CACHE as the module defines it: four empty dicts.
EmptyCache == [locations |-> <<>>, vendors |-> <<>>, payment_types |-> <<>>, rate_codes |-> <<>>]

\* dict filled in place: the entries of new, and those of old under other keys.
filled(old, new) ==
    [k \in DOMAIN old \cup DOMAIN new |-> IF k \in DOMAIN new THEN new[k] ELSE old[k]]

\* DIMENSION_CACHE after the first n of the four SELECTs of
\* populate_dimension_cache on the dimension tables dims (locations, vendors,
\* payment types, rate codes, in this order): natural key -> surrogate key.
cache_after(cache, dims, n) ==
    [locations     |-> IF n >= 1
                       THEN filled(cache.locations,
                                   [id \in {r.locationid : r \in dims.locations} |->
                                       [location_key |-> 100 + id]])
                       ELSE cache.locations,
     vendors       |-> IF n >= 2 THEN filled(cache.vendors, [id \in dims.vendors |-> 200 + id])
                       ELSE cache.vendors,
     payment_types |-> IF n >= 3
                       THEN filled(cache.payment_types, [id \in dims.payment_types |-> 300 + id])
                       ELSE cache.payment_types,
     rate_codes    |-> IF n >= 4
                       THEN filled(cache.rate_codes, [id \in dims.rate_codes |-> 400 + id])
                       ELSE cache.rate_codes]

\* DIMENSION_CACHE filled from the dimension tables that load_taxi_zones leaves.
WholeCache ==
    cache_after(EmptyCache,
                [locations |-> StandardZones, vendors |-> DimVendorIds,
                 payment_types |-> DimPaymentTypes, rate_codes |-> DimRateCodeIds], 4)

\* populate_dimension_cache: the SELECTs run on one connection, one after the
\* other; the first that fails leaves the dicts filled so far as they are and the
\* error is raised again.
populate_dimension_cache(db, conn) ==
    LET ok(i) == \A j \in 0..(i - 1) : connected([db EXCEPT !.stmts = @ + j], conn)
        n == CHOOSE i \in 0..4 : ok(i) /\ (i < 4 => ~ok(i + 1))
    IN  [db |-> [db EXCEPT !.cache = cache_after(db.cache, db.dims, n),
                           !.stmts = @ + (IF n < 4 THEN n + 1 ELSE 4)],
         raised |-> n < 4]

\* dict.get: the value under the key as <<value>>, None as <<>>.
cache_get(cache, id) == IF id \in DOMAIN cache THEN <<cache[id]>> ELSE <<>>

\* The row of star_df derived from a row of chunk_df (the keys and the columns
\* the filters read; the measures are left out).
star_df_row(cache, row) ==
    [original_row_hash |-> row.row_hash,
     pickup_location_key |->
         IF row.pulocationid \in DOMAIN cache.locations
         THEN <<cache.locations[row.pulocationid].location_key>> ELSE <<>>,
     dropoff_location_key |->
         IF row.dolocationid \in DOMAIN cache.locations
         THEN <<cache.locations[row.dolocationid].location_key>> ELSE <<>>,
     vendor_key |-> cache_get(cache.vendors, row.vendorid),
     payment_type_key |-> cache_get(cache.payment_types, row.payment_type),
     rate_code_key |-> cache_get(cache.rate_codes, row.ratecodeid),
     pickup_year |-> row.tpep_pickup_year]

missing_pickup(cache, row) == star_df_row(cache, row).pickup_location_key = <<>>
missing_dropoff(cache, row) == star_df_row(cache, row).dropoff_location_key = <<>>
valid_date(row) ==
    row.tpep_pickup_year >= WindowFirstYear /\ row.tpep_pickup_year < WindowEndYear
\* valid_mask without the two location-key conjuncts.
valid_mask_dates_only(cache, row) == valid_date(row)

\* valid_mask without valid_date_mask.
valid_mask_no_date(cache, row) == ~missing_pickup(cache, row) /\ ~missing_dropoff(cache, row)

valid_mask(cache, row) ==
    ~missing_pickup(cache, row) /\ ~missing_dropoff(cache, row) /\ valid_date(row)

star_error_type(cache, row) ==
    IF missing_pickup(cache, row) \/ missing_dropoff(cache, row) THEN "missing_dimension_keys"
    ELSE IF ~valid_date(row) THEN "invalid_date_range"
    ELSE "unknown"

\* The two loops of store_invalid_row, for rows k..Len(rows).  The loop over
\* invalid_df (bulk_error = {}) enumerates the rows and numbers them row_idx + 1,
\* from 1.  The loop over the valid rows after a failed bulk insert numbers a row
\* idx + 1, idx the label of the row in the DataFrame read from the file; it
\* stores the text of the error, bulk_error, and the type is partition_error when
\* that text holds the word `partition`.
RECURSIVE store_rows(_, _, _, _, _, _, _)
store_rows(db, rows, k, source_file, chunk_number, bulk_error, conn) ==
    IF k > Len(rows) THEN db
    ELSE LET type == IF bulk_error = {} THEN star_error_type(db.cache, rows[k])
                     ELSE IF "partition" \in bulk_error THEN "partition_error"
                     ELSE "bulk_insert_failure"
             row_number_in_chunk == IF bulk_error = {} THEN k ELSE rows[k].index + 1
             error_message == IF bulk_error = {} THEN {type} ELSE bulk_error
         IN  store_rows(
                 store_invalid_row(db, rows[k], source_file, chunk_number,
                                   row_number_in_chunk, error_message, type, conn),
                 rows, k + 1, source_file, chunk_number, bulk_error, conn)

\* The rows of star_df_valid as a bag.
BagOfStarRows(cache, rows) ==
    LET ss == {star_df_row(cache, rows[i]) : i \in 1..Len(rows)}
    IN  [s \in ss |-> Cardinality({i \in 1..Len(rows) : star_df_row(cache, rows[i]) = s})]

\* A row of star_df_valid that fact_taxi_trips refuses: a NULL in a key column
\* declared NOT NULL.
fact_refuses(cache, not_null, row) ==
    /\ not_null
    /\ \/ star_df_row(cache, row).vendor_key = <<>>
       \/ star_df_row(cache, row).payment_type_key = <<>>
       \/ star_df_row(cache, row).rate_code_key = <<>>

\* load_chunk_to_star_schema_optimized: the cache is filled when its locations
\* are empty, and an error of that ends the call with 0; rows that miss a location
\* key or the date window go to the invalid-record store, the others to
\* fact_taxi_trips in one transaction; returns the number of fact rows inserted.
\* db.fact_error is the text of the error of fact_taxi_trips refusing a row.
load_chunk_to_star_schema(db, chunk_df, source_file, chunk_number, conn) ==
    IF Len(chunk_df) = 0 THEN [db |-> db, star_rows |-> 0]
    ELSE LET \* the bulk insert into fact_taxi_trips, db1 the tables before it
             insert_valid(valid_df, db1) ==
                 IF Len(valid_df) = 0 THEN [db |-> db1, star_rows |-> 0]
                 ELSE IF /\ connected(db1, conn)
                         /\ \A i \in 1..Len(valid_df) :
                                ~fact_refuses(db1.cache, db1.fact_keys_not_null, valid_df[i])
                 THEN [db |-> [db1 EXCEPT !.fact = @ (+) BagOfStarRows(db1.cache, valid_df),
                                           !.stmts = @ + 1],
                       star_rows |-> Len(valid_df)]
                 ELSE [db |-> store_rows([db1 EXCEPT !.stmts = @ + 1], valid_df, 1, source_file,
                                         chunk_number,
                                         IF connected(db1, conn) THEN db1.fact_error
                                         ELSE WarehouseMessage("connection", FALSE),
                                         conn),
                       star_rows |-> 0]
             \* the call from the dimension lookups on, `ready` what the filling of
             \* the cache has left
             lookups(ready) ==
                 IF ready.raised THEN [db |-> ready.db, star_rows |-> 0]
                 ELSE insert_valid(
                          SelectSeq(chunk_df, LAMBDA r : valid_mask(ready.db.cache, r)),
                          store_rows(ready.db,
                                     SelectSeq(chunk_df, LAMBDA r : ~valid_mask(ready.db.cache, r)),
                                     1, source_file, chunk_number, {}, conn))
         IN  lookups(IF DOMAIN db.cache.locations = {}
                     THEN populate_dimension_cache(db, conn)
                     ELSE [db |-> db, raised |-> FALSE])

\* ------------------------------------------------------------ ChunkLoader
DuplicateKeywords == {"unique constraint", "duplicate key", "row_hash"}

\* The keyword test with the keyword 'row_hash' alone.
is_duplicate_error_row_hash_only(error_str) == "row_hash" \in error_str

\* any(keyword in error_str for keyword in [...]).
is_duplicate_error(error_str) == error_str \cap DuplicateKeywords # {}

\* The if/elif chain of the row-level fallback.
classify_row_error(error_str) ==
    IF is_duplicate_error(error_str) THEN "duplicate_key"
    ELSE IF "primary key" \in error_str THEN "primary_key_violation"
    ELSE IF "check constraint" \in error_str THEN "constraint_violation"
    ELSE IF "data type" \in error_str \/ "invalid input" \in error_str THEN "data_type_error"
    ELSE "unknown_error"

QualityRecord(filename, op, table, chunk_number, attempted, inserted, duplicates, invalid_n) ==
    [source_file |-> filename, operation_type |-> op, target_table |-> table,
     chunk_number |-> chunk_number, rows_attempted |-> attempted,
     rows_inserted |-> inserted, rows_duplicates |-> duplicates,
     rows_invalid |-> invalid_n]

NoResults == [loaded |-> 0, star_loaded |-> 0, duplicates |-> 0, invalid |-> 0]

\* The row-by-row loop of load_chunk_with_error_handling, from row row_idx on.
RECURSIVE row_by_row(_, _, _, _, _, _, _, _)
row_by_row(db, results, chunk_df, row_idx, filename, chunk_number, conn, echo) ==
    IF row_idx > Len(chunk_df) THEN [db |-> db, results |-> results]
    ELSE
      LET row == chunk_df[row_idx]
          \* the rows after this one, db1 and results1 the tables and counts so far
          rest(db1, results1) ==
              row_by_row(db1, results1, chunk_df, row_idx + 1, filename, chunk_number,
                         conn, echo)
          \* after the INSERT of the row was accepted
          inserted(star) ==
              rest(star.db, [results EXCEPT !.loaded = @ + 1,
                                            !.star_loaded = @ + star.star_rows])
          \* after the INSERT of the row was tried, ins its outcome, db1 the tables
          single_row(ins, db1) ==
              IF ins.ok
              THEN inserted(load_chunk_to_star_schema([db1 EXCEPT !.trips = ins.table],
                                                      <<row>>, filename, chunk_number, conn))
              ELSE IF classify_row_error(ins.error) = "duplicate_key"
              THEN rest(db1, [results EXCEPT !.duplicates = @ + 1])
              ELSE rest(store_invalid_row(db1, row, filename, chunk_number, row_idx,
                                          ins.error, classify_row_error(ins.error), conn),
                        [results EXCEPT !.invalid = @ + 1])
      IN  single_row(to_sql(db.trips, <<row>>, connected(db, conn), echo),
                     [db EXCEPT !.stmts = @ + 1])

\* load_chunk_with_error_handling: bulk insert, duplicate short-circuit, row-level
\* fallback; returns the new tables and the counts of the chunk.
load_chunk_with_error_handling(db, chunk, filename, chunk_number, conn, echo) ==
    LET chunk_df == add_row_hash_column(chunk)
        n == Len(chunk_df)
        \* the two quality records of a chunk the bulk insert accepted
        chunk_recorded(db1, star_rows) ==
            IF star_rows > 0
            THEN record_quality_metrics(db1,
                     QualityRecord(filename, "star_schema_insert", "fact_taxi_trips",
                                   chunk_number, n, star_rows, 0, 0), conn)
            ELSE db1
        bulk_inserted(star) ==
            [db |-> chunk_recorded(
                        record_quality_metrics(star.db,
                            QualityRecord(filename, "chunk_insert", "yellow_taxi_trips",
                                          chunk_number, n, n, 0, 0), conn),
                        star.star_rows),
             results |-> [NoResults EXCEPT !.loaded = n, !.star_loaded = star.star_rows]]
        \* the quality record of a chunk loaded row by row
        rows_inserted(rows) ==
            [db |-> record_quality_metrics(rows.db,
                        QualityRecord(filename, "chunk_insert_with_errors",
                                      "yellow_taxi_trips", chunk_number, n,
                                      rows.results.loaded, rows.results.duplicates,
                                      rows.results.invalid), conn),
             results |-> rows.results]
        \* after the bulk INSERT was tried, bulk its outcome, db1 the tables
        chunk_tried(bulk, db1) ==
            IF bulk.ok
            THEN bulk_inserted(load_chunk_to_star_schema([db1 EXCEPT !.trips = bulk.table],
                                                         chunk_df, filename, chunk_number, conn))
            ELSE IF is_duplicate_error(bulk.error)
            THEN [db |-> record_quality_metrics(db1,
                             QualityRecord(filename, "chunk_insert", "yellow_taxi_trips",
                                           chunk_number, n, 0, n, 0), conn),
                  results |-> [NoResults EXCEPT !.duplicates = n]]
            ELSE rows_inserted(row_by_row(db1, NoResults, chunk_df, 1, filename,
                                          chunk_number, conn, echo))
    IN  chunk_tried(to_sql(db.trips, chunk_df, connected(db, conn), echo),
                    [db EXCEPT !.stmts = @ + 1])

\* ------------------------------------------------------- ProcessingLedger
\* check_month_already_processed without the DELETE of the in_progress branch.
check_month_keeps_in_progress(led, m, up, i) ==
    IF ~up \/ led[m] = <<>> THEN [done |-> FALSE, ledger |-> led]
    ELSE IF led[m][i] = "completed" THEN [done |-> TRUE, ledger |-> led]
    ELSE IF led[m][i] = "failed"
         THEN [done |-> FALSE, ledger |-> [led EXCEPT ![m] = <<>>]]
         ELSE [done |-> FALSE, ledger |-> led]

\* check_month_already_processed, row i of the month being the one fetchone()
\* returns (the SELECT has no ORDER BY): True only when it is completed; when it
\* is in_progress or failed, all the rows of the month are deleted; an error
\* returns False.
check_month_already_processed(led, m, up, i) ==
    IF ~up THEN [done |-> FALSE, ledger |-> led]
    ELSE IF led[m] = <<>> THEN [done |-> FALSE, ledger |-> led]
    ELSE IF led[m][i] = "completed" THEN [done |-> TRUE, ledger |-> led]
    ELSE IF led[m][i] \in {"in_progress", "failed"}
         THEN [done |-> FALSE, ledger |-> [led EXCEPT ![m] = <<>>]]
         ELSE [done |-> FALSE, ledger |-> led]

\* start_processing_log: INSERT ... VALUES (..., 'in_progress').
start_processing_log(led, m, up) ==
    IF up THEN [led EXCEPT ![m] = Append(@, "in_progress")] ELSE led

\* complete_processing_log: UPDATE ... SET status = 'completed' WHERE year, month.
complete_processing_log(led, m, up) ==
    IF up THEN [led EXCEPT ![m] = [i \in 1..Len(@) |-> "completed"]] ELSE led

\* fail_processing_log: UPDATE ... SET status = 'failed' WHERE year, month.
fail_processing_log(led, m, up) ==
    IF up THEN [led EXCEPT ![m] = [i \in 1..Len(@) |-> "failed"]] ELSE led

\* ---------------------------------------------------- MonthBackfillPlanner
MonthBefore(a, b) == a[1] < b[1] \/ (a[1] = b[1] /\ a[2] < b[2])

\* sorted(..., reverse=True)
RECURSIVE SortedMonthsDescending(_)
SortedMonthsDescending(S) ==
    IF S = {} THEN <<>>
    ELSE LET first == CHOOSE x \in S : \A y \in S : x = y \/ MonthBefore(y, x)
         IN  <<first>> \o SortedMonthsDescending(S \ {first})

RECURSIVE SortedMonths(_)
SortedMonths(S) ==
    IF S = {} THEN <<>>
    ELSE LET first == CHOOSE x \in S : \A y \in S : x = y \/ MonthBefore(x, y)
         IN  <<first>> \o SortedMonths(S \ {first})

\* `year, month = month_str.strip().split('-')` and the two int(): the months
\* parsed from one token, none when ValueError is raised.
parse_month(month_str) ==
    IF Len(month_str) = 2 /\ month_str[1].kind = "int" /\ month_str[2].kind = "int"
    THEN {<<month_str[1].value, month_str[2].value>>}
    ELSE {}

is_leap(y) == y % 4 = 0 /\ (y % 100 # 0 \/ y % 400 = 0)
days_in_month(y, m) ==
    IF m = 2 THEN (IF is_leap(y) THEN 29 ELSE 28)
    ELSE IF m \in {4, 6, 9, 11} THEN 30 ELSE 31

\* date - timedelta(days=n)
RECURSIVE minus_days(_, _)
minus_days(date, n) ==
    IF n < date[3] THEN <<date[1], date[2], date[3] - n>>
    ELSE LET y == IF date[2] = 1 THEN date[1] - 1 ELSE date[1]
             m == IF date[2] = 1 THEN 12 ELSE date[2] - 1
         IN  minus_days(<<y, m, days_in_month(y, m)>>, n - date[3])

\* The days of year y before its month m.
RECURSIVE days_before_month(_, _)
days_before_month(y, m) ==
    IF m = 1 THEN 0 ELSE days_before_month(y, m - 1) + days_in_month(y, m - 1)

\* date.toordinal(): the number of the day, 0001-01-01 being day 1.
toordinal(date) ==
    LET y == date[1] - 1
    IN  365 * y + y \div 4 - y \div 100 + y \div 400
            + days_before_month(date[1], date[2]) + date[3]

\* get_backfill_months raises: in the `last_` branch `current_date -
\* timedelta(days=30 * i)` is an OverflowError when the day is before 0001-01-01,
\* and the except clause names IndexError and ValueError only.
get_backfill_months_raises(config, now) ==
    /\ config # << <<All>> >>
    /\ config[1][1].kind = "last"
    /\ 30 * (config[1][1].value - 1) >= toordinal(now)

\* get_backfill_months with the try around the loop over the tokens: one
\* malformed token ends the parsing of the list.
get_backfill_months_one_try(config, now) ==
    LET Bad(i) == parse_month(config[i]) = {}
        months ==
          IF config = << <<All>> >>
          THEN {<<y, m>> : y \in 2020..now[1], m \in 1..12} \
                   {<<now[1], m>> : m \in (now[2] + 1)..12}
          ELSE IF config[1][1].kind \in {"last", "last_bad"}
          THEN IF config[1][1].kind = "last"
               THEN {<<minus_days(now, 30 * i)[1], minus_days(now, 30 * i)[2]>> :
                        i \in 0..(config[1][1].value - 1)}
               ELSE {}
          ELSE IF Len(config) >= 2
          THEN UNION {parse_month(config[i]) :
                         i \in {k \in 1..Len(config) : \A j \in 1..k : ~Bad(j)}}
          ELSE parse_month(config[1])
    IN  SortedMonths(months)

\* get_backfill_months: the months of the specification, sorted(list(set(months))).
get_backfill_months(config, now) ==
    LET months ==
          IF config = << <<All>> >>
          THEN {<<y, m>> : y \in 2020..now[1], m \in 1..12} \
                   {<<now[1], m>> : m \in (now[2] + 1)..12}
          ELSE IF config[1][1].kind \in {"last", "last_bad"}
          THEN IF config[1][1].kind = "last"
               THEN {<<minus_days(now, 30 * i)[1], minus_days(now, 30 * i)[2]>> :
                        i \in 0..(config[1][1].value - 1)}
               ELSE {}
          ELSE IF Len(config) >= 2
          THEN UNION {parse_month(config[i]) : i \in 1..Len(config)}
          ELSE parse_month(config[1])
    IN  SortedMonths(months)

\* ------------------------------------------------- load_single_parquet_file
\* len(df) // chunk_size + (1 if len(df) % chunk_size else 0)
total_chunks(n, size) == n \div size + (IF n % size # 0 THEN 1 ELSE 0)

\* df.iloc[chunk_start:] of chunk i: the slice without its end.
chunk_to_the_end(df, i, size) == SubSeq(df, (i - 1) * size + 1, Len(df))

\* df.iloc[chunk_start:chunk_end] of chunk i (numbered from 1).
chunk_of(df, i, size) ==
    SubSeq(df, (i - 1) * size + 1, IF i * size < Len(df) THEN i * size ELSE Len(df))

\* -------------------------------------------------------------- pipeline
month == IF backfill_config = EmptyConfig THEN Legacy ELSE months_to_load[pos]

\* The lookup and dimension tables of an empty warehouse.
NoRows == [locations |-> {}, rate_codes |-> {}, payment_types |-> {}, vendors |-> {}]

IdleMemory ==
    /\ script_dir' = "unknown"
    /\ zone_source' = "unknown"
    /\ backfill_config' = <<>>
    /\ months_to_load' = <<>>
    /\ pos' = 0
    /\ chunk_size' = 0
    /\ chunk_no' = 0
    /\ loaded_rows' = 0
    /\ total_rows' = 0
    /\ chunk_results' = NoResults
    /\ infra_failed' = FALSE
    /\ DIMENSION_CACHE' = EmptyCache

\* `continue`, or the end of the loop over months_to_load.
NextMonth ==
    /\ pos' = IF pos < Len(months_to_load) THEN pos + 1 ELSE pos
    /\ pc' = IF pos < Len(months_to_load) THEN "check" ELSE "end"
    /\ chunk_no' = 0
    /\ loaded_rows' = 0
    /\ chunk_results' = NoResults
    /\ infra_failed' = FALSE

Started(date) ==
    /\ source \in SourceScenarios
    /\ current_date = date
    /\ fact_keys_not_null \in BOOLEAN
    \* the text is read when a row is refused only
    /\ fact_error \in {NotNullViolation} \cup
                      (IF fact_keys_not_null THEN {NotNullViolation \cup {"partition"}} ELSE {})
    /\ disk = [m \in Files |-> IF m = Legacy /\ source[m] # <<>> THEN "complete" ELSE "absent"]
    /\ ledger = [m \in Files |-> <<>>]
    /\ trips = EmptyBag
    /\ fact = EmptyBag
    /\ invalid = EmptyBag
    /\ quality = EmptyBag
    /\ index_builds = 0
    /\ db_up = TRUE
    /\ outages = 0
    /\ run = 0
    /\ script_dir = "unknown"
    /\ zone_source = "unknown"
    /\ exit_code = <<>>
    /\ trip_result = <<>>
    /\ pc = "idle"
    /\ backfill_config = <<>>
    /\ months_to_load = <<>>
    /\ pos = 0
    /\ chunk_size = 0
    /\ chunk_no = 0
    /\ loaded_rows = 0
    /\ total_rows = 0
    /\ chunk_results = NoResults
    /\ infra_failed = FALSE
    /\ DIMENSION_CACHE = EmptyCache
    /\ lookup_tables = NoRows
    /\ dim_tables = NoRows
    /\ refreshes = 0
    /\ refreshed = <<>>

HasherAtRest == series = <<>> /\ digest = <<>> /\ series_2 = <<>> /\ digest_2 = <<>>

\* The declaration of the fact keys is read for rows without a vendor, payment
\* type or rate code key only: with the connection up all along the cache is
\* whole, and for files without such a row one declaration stands for all.
Init ==
    /\ Started(RunDate) /\ HasherAtRest
    /\ \/ fact_keys_not_null /\ fact_error = NotNullViolation
       \/ \E m \in Files : \E i \in 1..Len(source[m]) :
              fact_refuses(WholeCache, TRUE, WithHash(source[m][i]))

\* execute_sql_scripts: False when the directory is missing, when it holds no
\* script, and when the connection cannot be opened.
execute_sql_scripts(dir, up) == dir = "scripts" /\ up

\* The lookup tables after the INSERTs of load_taxi_zones: the rows of the file
\* and the fixed rows of the three other tables.
reload_lookups(csv) ==
    [locations     |-> csv,
     rate_codes    |-> DimRateCodeIds,
     payment_types |-> DimPaymentTypes,
     vendors       |-> DimVendorIds]

\* INSERT ... SELECT DISTINCT ... ON CONFLICT (locationid) DO NOTHING: a row of
\* the lookup table is inserted unless the table holds a row of its locationid.
insert_on_conflict_do_nothing(table, rows) ==
    table \cup {r \in rows : \A t \in table : t.locationid # r.locationid}

\* The dimension tables after the four INSERT ... SELECT DISTINCT ... ON
\* CONFLICT DO NOTHING of populate_star_schema_dimensions.
dimension_inserts(lookup, dims) ==
    [locations     |-> insert_on_conflict_do_nothing(dims.locations, lookup.locations),
     rate_codes    |-> dims.rate_codes \cup lookup.rate_codes,
     payment_types |-> dims.payment_types \cup lookup.payment_types,
     vendors       |-> dims.vendors \cup lookup.vendors]

\* A quality record of populate_star_schema_dimensions: it names no source file
\* and no chunk (NULL, here the empty tuple and 0).
dimension_record(op, table, row_count) ==
    QualityRecord(<<>>, op, table, 0, row_count, row_count, 0, 0)

\* The dimension tables in the order of the loop over their names, with the
\* field that holds their rows.
DimensionTables ==
    << [name |-> "dim_locations", rows |-> "locations"],
       [name |-> "dim_vendor", rows |-> "vendors"],
       [name |-> "dim_payment_type", rows |-> "payment_types"],
       [name |-> "dim_rate_code", rows |-> "rate_codes"] >>

\* The loop of populate_star_schema_dimensions over the dimension tables, from
\* table i on: SELECT COUNT(*) on the connection of the transaction (held: it
\* has not failed so far), then record_quality_metrics on a connection of its
\* own; a failed count is logged, its record is skipped and the connection of
\* the transaction is of no use from then on.  dims: the tables as the
\* transaction sees them.
RECURSIVE dimension_metrics(_, _, _, _, _)
dimension_metrics(db, dims, i, held, conn) ==
    IF i > Len(DimensionTables) THEN [db |-> db, held |-> held]
    ELSE IF held /\ connected(db, conn)
    THEN dimension_metrics(
             record_quality_metrics(tick(db),
                 dimension_record("dimension_load", DimensionTables[i].name,
                                  Cardinality(dims[DimensionTables[i].rows])), conn),
             dims, i + 1, TRUE, conn)
    ELSE dimension_metrics(tick(db), dims, i + 1, FALSE, conn)

\* populate_star_schema_dimensions: the four INSERTs, the loop over the tables
\* and the commit are one transaction; when it raises, nothing of it is stored,
\* a dimension_load_failed record is written and the function returns False.
populate_star_schema_dimensions(db, conn) ==
    LET inserts == transaction(db, 4, conn)
        failure(db1) ==
            [db |-> record_quality_metrics(db1,
                        dimension_record("dimension_load_failed", "all_dimensions", 0), conn),
             ok |-> FALSE]
        committed(counted) ==
            IF counted.held /\ connected(counted.db, conn)
            THEN [db |-> tick([counted.db EXCEPT !.dims = dimension_inserts(db.lookup, db.dims)]),
                  ok |-> TRUE]
            ELSE failure(tick(counted.db))
    IN  IF inserts.committed
        THEN committed(dimension_metrics(inserts.db, dimension_inserts(db.lookup, db.dims),
                                         1, TRUE, conn))
        ELSE failure(inserts.db)

\* load_taxi_zones on the tables db, the reference file csv being what the
\* download brings when zones is "ok": the TRUNCATEs are committed before the
\* download, so that a failed download or load leaves the lookup tables empty;
\* the zones, the shapes and the three other lookup tables are stored one after
\* the other, each in a transaction of its own; whatever raises ends the call,
\* which returns False.
load_taxi_zones(db, csv, zones, conn) ==
    LET failed(db1) == [db |-> db1, ok |-> FALSE]
        lookups(db1) ==
            LET inserts == transaction(db1, 3, conn)
            IN  IF inserts.committed
                THEN populate_star_schema_dimensions(
                         [inserts.db EXCEPT !.lookup = reload_lookups(csv)], conn)
                ELSE failed(inserts.db)
        shapes(db1) ==
            IF connected(db1, conn) THEN lookups(tick(db1)) ELSE failed(tick(db1))
        zones_df(db1) ==
            IF zones = "load_fails" THEN failed(db1)
            ELSE IF connected(db1, conn)
            THEN shapes(tick([db1 EXCEPT !.lookup.locations = csv]))
            ELSE failed(tick(db1))
        truncates == transaction(db, 5, conn)
    IN  IF ~truncates.committed THEN failed(truncates.db)
        ELSE IF zones = "download_fails" THEN failed([truncates.db EXCEPT !.lookup = NoRows])
        ELSE zones_df([truncates.db EXCEPT !.lookup = NoRows])

\* os.path.exists(parquet_path) == False
legacy_file_never(d) == FALSE

\* os.path.exists(parquet_path) of the single-file branch of load_trip_data.
legacy_file_exists(d) == d[Legacy] # "absent"

\* main returns False: the process exits with code 1.
Abort ==
    /\ pc' = "idle"
    /\ exit_code' = <<1>>
    /\ trip_result' = <<>>
    /\ IdleMemory

\* main up to step 1: wait_for_postgres.
StartMain ==
    /\ pc = "idle"
    /\ run < MaxRuns
    /\ run' = run + 1
    /\ IF db_up
       THEN /\ \E dir \in ScriptDirs, zones \in ZoneSources :
                  script_dir' = dir /\ zone_source' = zones
            /\ pc' = "schema"
            /\ exit_code' = <<>>
            /\ trip_result' = <<>>
            /\ UNCHANGED memory
       ELSE Abort
    /\ UNCHANGED <<source, hasher, reference, current_date, fact_keys_not_null, fact_error, disk, warehouse, connection>>

\* main, step 1
ExecuteSqlScripts ==
    /\ pc = "schema"
    /\ IF execute_sql_scripts(script_dir, db_up)
       THEN pc' = "zones" /\ UNCHANGED <<setup, returned, memory>>
       ELSE Abort
    /\ UNCHANGED <<source, hasher, reference, current_date, fact_keys_not_null, fact_error, disk, warehouse, connection, run>>

\* load_taxi_zones(engine) of the current run, under the connection conn.
zone_call(csv, conn) ==
    load_taxi_zones([lookup |-> lookup_tables, dims |-> dim_tables, quality |-> quality,
                     stmts |-> 0], csv, zone_source, conn)

\* The call of load_taxi_zones has run more than k statements and returned
\* `out`: main goes on to load_trip_data, or returns False.
ZonesLoaded(out, k) ==
    /\ out.db.stmts > k
    /\ lookup_tables' = out.db.lookup
    /\ dim_tables' = out.db.dims
    /\ quality' = out.db.quality
    /\ IF out.ok
       THEN pc' = "plan" /\ UNCHANGED <<setup, returned, memory>>
       ELSE Abort

\* main, step 2, the connection staying as it is for the whole call.
LoadTaxiZones ==
    /\ pc = "zones"
    /\ ZonesLoaded(zone_call(StandardZones, steady(db_up)), 0)
    /\ UNCHANGED <<source, hasher, refreshes, refreshed, current_date, fact_keys_not_null, fact_error, disk, ledger, trips, fact, invalid, index_builds, connection, run>>

\* load_trip_data up to the loop: BACKFILL_MONTHS and DATA_CHUNK_SIZE are read
\* and the plan is computed.
StartRun ==
    /\ pc = "plan"
    /\ \E config \in BackfillConfigs, size \in 1..MaxChunkSize :
          IF config # EmptyConfig /\ get_backfill_months_raises(config, current_date)
          THEN \* the error leaves load_trip_data and main returns False
               Abort
          ELSE /\ backfill_config' = config
               /\ chunk_size' = size
               /\ IF config # EmptyConfig
                  THEN /\ months_to_load' = get_backfill_months(config, current_date)
                       /\ pos' = IF months_to_load' = <<>> THEN 0 ELSE 1
                       /\ pc' = IF months_to_load' = <<>> THEN "end" ELSE "check"
                       /\ chunk_no' = chunk_no
                  ELSE /\ months_to_load' = <<>>
                       /\ pos' = 0
                       /\ pc' = IF legacy_file_exists(disk) THEN "load" ELSE "end"
                       /\ chunk_no' = IF legacy_file_exists(disk) THEN 1 ELSE chunk_no
               /\ UNCHANGED <<setup, returned, loaded_rows, total_rows, chunk_results,
                              infra_failed, DIMENSION_CACHE>>
    /\ UNCHANGED <<source, hasher, reference, current_date, fact_keys_not_null, fact_error, disk, warehouse,
                   connection, run>>

\* if check_month_already_processed(engine, year, month): continue
CheckMonth ==
    /\ pc = "check"
    /\ \E i \in 1..(IF ledger[month] = <<>> THEN 1 ELSE Len(ledger[month])) :
          LET r == check_month_already_processed(ledger, month, db_up, i)
          IN  /\ ledger' = r.ledger
              /\ IF r.done
                 THEN NextMonth
                 ELSE pc' = "download"
                      /\ UNCHANGED <<pos, chunk_no, loaded_rows, chunk_results, infra_failed>>
    /\ UNCHANGED <<source, hasher, reference, setup, returned, current_date, fact_keys_not_null, fact_error, disk, trips, fact, invalid, quality, index_builds, connection, run,
                   backfill_config, months_to_load, chunk_size, total_rows, DIMENSION_CACHE>>

\* download_taxi_data: a file on disk, whole or not, is taken as it is; otherwise
\* the request succeeds, fails before anything is written, or breaks midway.
Download ==
    /\ pc = "download"
    /\ \E outcome \in {"ok", "request_error", "interrupted"} :
          IF disk[month] # "absent"
          THEN /\ pc' = "start"
               /\ UNCHANGED <<disk, pos, chunk_no, loaded_rows, chunk_results, infra_failed>>
          ELSE IF outcome = "ok"
          THEN /\ disk' = [disk EXCEPT ![month] = "complete"]
               /\ pc' = "start"
               /\ UNCHANGED <<pos, chunk_no, loaded_rows, chunk_results, infra_failed>>
          ELSE /\ disk' = [disk EXCEPT ![month] =
                              IF outcome = "interrupted" THEN "partial" ELSE "absent"]
               /\ NextMonth
    /\ UNCHANGED <<source, hasher, reference, setup, returned, current_date, fact_keys_not_null, fact_error, warehouse, connection, run, backfill_config, months_to_load, chunk_size, total_rows, DIMENSION_CACHE>>

\* start_processing_log, then load_single_parquet_file is entered.
StartLog ==
    /\ pc = "start"
    /\ ledger' = start_processing_log(ledger, month, db_up)
    /\ pc' = "load"
    /\ chunk_no' = 1
    /\ loaded_rows' = 0
    /\ UNCHANGED <<source, hasher, reference, setup, returned, current_date, fact_keys_not_null, fact_error, disk, trips, fact, invalid, quality, index_builds, connection, run,
                   backfill_config, months_to_load, pos, chunk_size, total_rows, chunk_results, infra_failed, DIMENSION_CACHE>>

\* load_chunk_with_error_handling(engine, df.iloc[chunk_start:chunk_end], filename,
\* i + 1) of the current turn of the loop, under the connection conn.
chunk_call(conn, echo) ==
    load_chunk_with_error_handling(
        [trips |-> trips, fact |-> fact, invalid |-> invalid, quality |-> quality,
         fact_keys_not_null |-> fact_keys_not_null, fact_error |-> fact_error,
         dims |-> dim_tables, cache |-> DIMENSION_CACHE, stmts |-> 0],
        chunk_of(read_parquet(source[month]), chunk_no, chunk_size),
        month, chunk_no, conn, echo)

\* The tables after a call that has run more than k statements.
Written(db, k) ==
    /\ db.stmts > k
    /\ trips' = db.trips
    /\ fact' = db.fact
    /\ invalid' = db.invalid
    /\ quality' = db.quality

\* The call has run more than k statements and returned `out`: the loop adds up
\* the counts and goes on.
ChunkLoaded(out, k) ==
    /\ Written(out.db, k)
    /\ DIMENSION_CACHE' = out.db.cache
    /\ chunk_results' = out.results
    /\ loaded_rows' = loaded_rows + out.results.loaded
    /\ chunk_no' = chunk_no + 1

\* One turn of the loop of load_single_parquet_file, the connection staying as
\* it is for the whole call.
LoadChunk ==
    /\ pc = "load"
    /\ disk[month] = "complete"
    /\ chunk_no <= total_chunks(Len(source[month]), chunk_size)
    /\ \E echo \in Echoes :
          LET out == chunk_call(steady(db_up), echo)
          IN  ChunkLoaded(out, 0)
    /\ infra_failed' = (infra_failed \/ ~db_up)
    /\ UNCHANGED <<source, hasher, reference, setup, returned, current_date, fact_keys_not_null, fact_error, disk, ledger, index_builds, connection, run, pc, backfill_config, months_to_load, pos,
                   chunk_size, total_rows>>

\* load_single_parquet_file returns (0 when the file cannot be read) and the
\* ledger entry is completed or failed.
FinishMonth ==
    /\ pc = "load"
    /\ \/ disk[month] # "complete"
       \/ chunk_no > total_chunks(Len(source[month]), chunk_size)
    /\ LET rows_loaded == IF disk[month] = "complete" THEN loaded_rows ELSE 0
       IN  /\ ledger' = IF backfill_config = EmptyConfig THEN ledger
                         ELSE IF rows_loaded > 0
                         THEN complete_processing_log(ledger, month, db_up)
                         ELSE fail_processing_log(ledger, month, db_up)
           /\ total_rows' = total_rows + rows_loaded
    /\ NextMonth
    /\ UNCHANGED <<source, hasher, reference, setup, returned, current_date, fact_keys_not_null, fact_error, disk, trips, fact, invalid, quality, index_builds, connection, run,
                   backfill_config, months_to_load, chunk_size, DIMENSION_CACHE>>

\* After the loop: create_performance_indexes if any row was loaded (a failure
\* of its SELECT is logged and swallowed), and load_trip_data returns.
CreatePerformanceIndexes ==
    /\ pc = "end"
    /\ index_builds' = IF total_rows > 0 /\ db_up THEN index_builds + 1 ELSE index_builds
    /\ trip_result' = <<total_rows > 0>>
    /\ pc' = "verify"
    /\ UNCHANGED <<source, hasher, reference, setup, exit_code, current_date, fact_keys_not_null, fact_error, disk, ledger, trips, fact, invalid, quality, connection, run, memory>>

\* main, step 4: verify_data_load, which only reads and logs, and main returns
\* True.
EndRun ==
    /\ pc = "verify"
    /\ exit_code' = <<0>>
    /\ pc' = "idle"
    /\ IdleMemory
    /\ UNCHANGED <<source, hasher, reference, trip_result, current_date, fact_keys_not_null, fact_error, disk, warehouse, connection, run>>

\* The process is killed from outside (SIGKILL, exit status 128 + 9): memory is
\* lost, the warehouse and the files stay as they are.
Kill ==
    /\ pc # "idle"
    /\ pc' = "idle"
    /\ exit_code' = <<128 + 9>>
    /\ trip_result' = <<>>
    /\ IdleMemory
    /\ UNCHANGED <<source, hasher, reference, current_date, fact_keys_not_null, fact_error, disk, warehouse, connection, run>>

\* The statements a call of load_chunk_with_error_handling on the current chunk
\* runs at most.
CallStatements == 3 * Len(chunk_of(read_parquet(source[month]), chunk_no, chunk_size)) + 2 + 4

\* The process is killed inside load_chunk_with_error_handling, between two of
\* its statements: the first k are committed (or refused) and the later ones are
\* never run, which leaves the tables as a connection lost after k statements
\* does.  With the connection down no statement stores anything: that is Kill.
KillBetweenInserts ==
    /\ pc = "load"
    /\ disk[month] = "complete"
    /\ chunk_no <= total_chunks(Len(source[month]), chunk_size)
    /\ db_up
    /\ \E echo \in Echoes :
          \E k \in 1..(CallStatements - 1) :
              LET out == chunk_call(flips(TRUE, k, MaxStatements), echo)
              IN  Written(out.db, k)
    /\ pc' = "idle"
    /\ exit_code' = <<128 + 9>>
    /\ trip_result' = <<>>
    /\ IdleMemory
    /\ UNCHANGED <<source, hasher, reference, current_date, fact_keys_not_null, fact_error, disk, ledger, index_builds, connection, run>>

\* The process is killed inside load_taxi_zones, between two of its statements:
\* the transactions committed so far stay, the open one is rolled back.
KillInTaxiZones ==
    /\ pc = "zones"
    /\ db_up
    /\ \E k \in 1..(ZoneStatements - 1) :
          LET out == zone_call(StandardZones, flips(TRUE, k, MaxStatements))
          IN  /\ out.db.stmts > k
              /\ lookup_tables' = out.db.lookup
              /\ dim_tables' = out.db.dims
              /\ quality' = out.db.quality
    /\ pc' = "idle"
    /\ exit_code' = <<128 + 9>>
    /\ trip_result' = <<>>
    /\ IdleMemory
    /\ UNCHANGED <<source, hasher, refreshes, refreshed, current_date, fact_keys_not_null, fact_error, disk, ledger, trips, fact, invalid, index_builds, connection, run>>

ConnectionLost ==
    /\ db_up
    /\ pc # "idle"
    /\ outages < MaxOutages
    /\ db_up' = FALSE
    /\ outages' = outages + 1
    /\ UNCHANGED <<source, hasher, reference, setup, returned, current_date, fact_keys_not_null, fact_error, disk, warehouse, run, pc, memory>>

ConnectionRestored ==
    /\ ~db_up
    /\ db_up' = TRUE
    /\ outages' = outages
    /\ UNCHANGED <<source, hasher, reference, setup, returned, current_date, fact_keys_not_null, fact_error, disk, warehouse, run, pc, memory>>

\* The statements after which the connection may come back (be lost again) in
\* a call of at most n statements where it was lost (came back) after k:
\* MaxStatements stands for not in this call.
Back(k, n) == ((k + 1)..(n - 1)) \cup {MaxStatements}

\* The connection is lost inside load_chunk_with_error_handling, after k of its
\* statements: the later ones fail until it is back (in this call, or after
\* it), the call logs that and returns its counts.
ConnectionLostInChunk ==
    /\ pc = "load"
    /\ disk[month] = "complete"
    /\ chunk_no <= total_chunks(Len(source[month]), chunk_size)
    /\ db_up
    /\ outages < MaxOutages
    /\ \E echo \in Echoes :
          \E k \in 1..(CallStatements - 1) : \E back \in Back(k, CallStatements) :
              LET out == chunk_call(flips(TRUE, k, back), echo)
              IN  /\ ChunkLoaded(out, k)
                  /\ back < MaxStatements => out.db.stmts > back
                  /\ db_up' = (back < MaxStatements)
    /\ outages' = outages + 1
    /\ infra_failed' = TRUE
    /\ UNCHANGED <<source, hasher, reference, setup, returned, current_date, fact_keys_not_null, fact_error, disk, ledger, index_builds, run, pc, backfill_config, months_to_load, pos,
                   chunk_size, total_rows>>

\* The connection comes back inside load_chunk_with_error_handling, after k of
\* its statements have failed, and may be lost again before the call returns.
ConnectionRestoredInChunk ==
    /\ pc = "load"
    /\ disk[month] = "complete"
    /\ chunk_no <= total_chunks(Len(source[month]), chunk_size)
    /\ ~db_up
    /\ \E echo \in Echoes :
          \E k \in 1..(CallStatements - 1) : \E back \in Back(k, CallStatements) :
              LET out == chunk_call(flips(FALSE, k, back), echo)
              IN  /\ ChunkLoaded(out, k)
                  /\ back < MaxStatements => (out.db.stmts > back /\ outages < MaxOutages)
                  /\ db_up' = (back = MaxStatements)
                  /\ outages' = IF back < MaxStatements THEN outages + 1 ELSE outages
    /\ infra_failed' = TRUE
    /\ UNCHANGED <<source, hasher, reference, setup, returned, current_date, fact_keys_not_null, fact_error, disk, ledger, index_builds, run, pc, backfill_config, months_to_load, pos,
                   chunk_size, total_rows>>

\* The connection is lost inside load_taxi_zones, after k of its statements, and
\* may be back before the call returns.
ConnectionLostInTaxiZones ==
    /\ pc = "zones"
    /\ db_up
    /\ outages < MaxOutages
    /\ \E k \in 1..(ZoneStatements - 1) : \E back \in Back(k, ZoneStatements) :
          LET out == zone_call(StandardZones, flips(TRUE, k, back))
          IN  /\ ZonesLoaded(out, k)
              /\ back < MaxStatements => out.db.stmts > back
              /\ db_up' = (back < MaxStatements)
    /\ outages' = outages + 1
    /\ UNCHANGED <<source, hasher, refreshes, refreshed, current_date, fact_keys_not_null, fact_error, disk, ledger, trips, fact, invalid, index_builds, run>>

\* python-scripts/load_taxi_data.py, a loader started by hand, is no action: before
\* its first INSERT it calls pd.read_parquet(parquet_file, nrows=0), read_parquet
\* takes no such argument, and load_taxi_data catches the error and returns False
\* with the warehouse as it was.

\* The steps of main.
Main ==
    \/ StartMain
    \/ ExecuteSqlScripts
    \/ LoadTaxiZones
    \/ StartRun
    \/ CheckMonth
    \/ Download
    \/ StartLog
    \/ LoadChunk
    \/ FinishMonth
    \/ CreatePerformanceIndexes
    \/ EndRun

\* A step of main, or the process killed: between two steps, between two
\* statements of a chunk load, or between two statements of load_taxi_zones.
Next ==
    \/ Main
    \/ Kill
    \/ KillBetweenInserts
    \/ KillInTaxiZones

\* The pipeline with a warehouse whose statements fail only for what the data is.
Spec == Init /\ [][Next]_vars

\* The pipeline with a warehouse connection that can be lost and come back,
\* between two statements of main or inside a call, no run being killed; on the
\* files G1, U1, G2 and G2, G3, and on the files X1, G1, G2 and X1.
NextInfra ==
    \/ Main
    \/ ConnectionLost
    \/ ConnectionRestored
    \/ ConnectionLostInChunk
    \/ ConnectionRestoredInChunk
    \/ ConnectionLostInTaxiZones

InitInfra ==
    /\ Started(RunDate) /\ HasherAtRest
    /\ source[M1] \in {<<G1, U1, G2>>, <<X1, G1, G2>>}
    /\ fact_error = NotNullViolation
    /\ source[M1] = <<X1, G1, G2>> => fact_keys_not_null

SpecInfra == InitInfra /\ [][NextInfra]_vars

\* ------------------------------------------------- the reference data alone

\* The warehouse during a refresh: up or down all along, or lost after k
\* statements of the call.
ReferenceConnections ==
    {steady(TRUE), steady(FALSE)}
        \cup {flips(TRUE, k, MaxStatements) : k \in 1..(ZoneStatements - 1)}

\* load_taxi_zones called again and again, the reference file changing between
\* the calls.
RefreshReference ==
    /\ refreshes < MaxRefreshes
    /\ refreshes' = refreshes + 1
    /\ \E csv \in ZoneFiles, zones \in ZoneSources, conn \in ReferenceConnections :
          LET out == load_taxi_zones([lookup |-> lookup_tables, dims |-> dim_tables,
                                      quality |-> quality, stmts |-> 0], csv, zones, conn)
          IN /\ lookup_tables' = out.db.lookup
             /\ dim_tables' = out.db.dims
             /\ quality' = out.db.quality
             /\ refreshed' = <<out.ok>>
    /\ UNCHANGED <<source, hasher, setup, returned, current_date, fact_keys_not_null, fact_error, disk,
                   ledger, trips, fact, invalid, index_builds, connection, run, pc, memory>>

InitReference == Init /\ source[M1] = <<G1, U1, G2>> /\ fact_keys_not_null

SpecReference == InitReference /\ [][RefreshReference]_vars

\* get_backfill_months called on its own, on any specification at any date.
InitPlanner ==
    /\ (\E date \in PlannerDates : Started(date)) /\ HasherAtRest
    /\ fact_keys_not_null /\ fact_error = NotNullViolation

PlanMonths ==
    /\ pc = "idle"
    /\ backfill_config = <<>>
    /\ \E config \in PlannerConfigs :
          /\ backfill_config' = config
          /\ months_to_load' = get_backfill_months(config, current_date)
    /\ UNCHANGED <<source, hasher, reference, setup, returned, current_date, fact_keys_not_null, fact_error, disk, warehouse, connection, run, pc,
                   pos, chunk_size, chunk_no, loaded_rows, total_rows, chunk_results,
                   infra_failed, DIMENSION_CACHE>>

SpecPlanner == InitPlanner /\ [][PlanMonths]_vars

\* calculate_row_hash called on its own: on a Series, then on the same columns
\* presented in another order, or on a Series with the same labels.
InitHasher ==
    /\ Started(RunDate) /\ Len(source[M1]) = 1
    /\ fact_keys_not_null /\ fact_error = NotNullViolation
    /\ series \in HasherRows
    /\ digest = <<>> /\ series_2 = <<>> /\ digest_2 = <<>>

PipelineAtRest ==
    UNCHANGED <<source, reference, setup, returned, current_date, fact_keys_not_null, fact_error, disk, warehouse,
                connection, run, pc, memory>>

HashRow ==
    /\ digest = <<>>
    /\ digest' = <<series_row_hash(series)>>
    /\ UNCHANGED <<series, series_2, digest_2>>
    /\ PipelineAtRest

HashReordered ==
    /\ digest # <<>> /\ digest_2 = <<>>
    /\ series_2' = <<series[2], series[1]>>
    /\ digest_2' = <<series_row_hash(series_2')>>
    /\ UNCHANGED <<series, digest>>
    /\ PipelineAtRest

HashChanged ==
    /\ digest # <<>> /\ digest_2 = <<>>
    /\ \E v1 \in HasherValues, v2 \in HasherValues :
          series_2' = <<[series[1] EXCEPT !.value = v1], [series[2] EXCEPT !.value = v2]>>
    /\ digest_2' = <<series_row_hash(series_2')>>
    /\ UNCHANGED <<series, digest>>
    /\ PipelineAtRest

NextHasher == HashRow \/ HashReordered \/ HashChanged

SpecHasher == InitHasher /\ [][NextHasher]_vars

\* ================================================================ claims
Completed(m) == ledger[m] # <<>> /\ Head(ledger[m]) = "completed"
Stale(m) == ledger[m] # <<>> /\ Head(ledger[m]) \in {"in_progress", "failed"}
Checking(m) == pc = "check" /\ month = m
Processing(m) == pc \in {"download", "start", "load"} /\ month = m
ChunksOnDisk(m) ==
    IF disk[m] = "complete" THEN total_chunks(Len(source[m]), chunk_size) ELSE 0

\* C1: once the ledger holds a completed entry for a month, no step of any later
\* run reprocesses it: the check sends the run to the next month (never to the
\* download, the start of the log or a chunk load of that month), the month's
\* file, ledger rows and the trip, fact and invalid tables are left alone while
\* it is the current month, and the entry stays completed.
C1_CompletedNeverReprocessed ==
    [][\A m \in Months :
          Completed(m) =>
             /\ ledger'[m] = ledger[m]
             /\ disk'[m] = disk[m]
             /\ ~Processing(m)'
             /\ Checking(m) => (trips' = trips /\ fact' = fact /\ invalid' = invalid
                                /\ quality' = quality /\ pc' \in {"check", "end", "idle"})]_vars

\* C1 case: the second run has loaded again the first chunk of a month whose
\* entry the first run had completed, the entry being still there.
C1_Witness ==
    /\ run = 2 /\ Processing(M1) /\ pc = "load" /\ chunk_no = 2
    /\ Completed(M1)
    /\ chunk_results.duplicates > 0

\* C2: when the check of a run finds a stale (in_progress or failed) entry of the
\* month, it deletes it and the month goes on to the download, which cannot fail
\* because the file is on disk; the log is then started with exactly one fresh
\* in_progress entry and the load restarts at chunk 1 with no row counted; chunks
\* are attempted one by one and the month is finished only after the last chunk
\* of the file on disk.
C2_StaleMonthRetriedInFull ==
    [][\A m \in Months :
          /\ (Checking(m) /\ Stale(m) /\ pc' # "idle") =>
                 (ledger'[m] = <<>> /\ Processing(m)' /\ pc' = "download")
          /\ Stale(m) => disk[m] # "absent"
          /\ (Processing(m) /\ pc = "download" /\ disk[m] # "absent" /\ pc' # "idle") =>
                 (Processing(m)' /\ pc' = "start")
          /\ (Processing(m) /\ pc = "start" /\ pc' # "idle") =>
                 (ledger'[m] = <<"in_progress">> /\ pc' = "load" /\ chunk_no' = 1
                  /\ loaded_rows' = 0)
          /\ (Processing(m) /\ pc = "load" /\ pc' = "load") =>
                 (chunk_no <= ChunksOnDisk(m) /\ chunk_no' = chunk_no + 1
                  /\ BagCardinality(quality') > BagCardinality(quality))
          /\ (Processing(m) /\ pc = "load" /\ pc' \in {"check", "end"}) =>
                 chunk_no = ChunksOnDisk(m) + 1]_vars

\* C2 witness: the second run reloads month 2024-01, left in_progress by a killed
\* first run that had stored its first chunk; the first chunk was attempted again
\* (it came back as duplicates) and the second chunk is next.
C2_Witness ==
    /\ run = 2 /\ Processing(M1) /\ pc = "load" /\ chunk_no = 2
    /\ ledger[M1] = <<"in_progress">> /\ ledger[M2] = <<>> /\ disk[M2] = "absent"
    /\ chunk_results.duplicates > 0

\* C3: the ledger holds at most one entry per month, and the month has no entry
\* left when start_processing_log is about to insert one.
C3_OneLedgerEntryPerMonth ==
    /\ \A m \in Months : Len(ledger[m]) <= 1
    /\ \A m \in Months : (Processing(m) /\ pc = "start") => ledger[m] = <<>>

\* C3 case: in the second run start_processing_log has inserted an in_progress
\* entry for a month that has a completed entry: the month has two entries.
C3_Witness ==
    /\ run = 2 /\ Processing(M1) /\ pc = "load" /\ chunk_no = 1
    /\ ledger[M1] = <<"completed", "in_progress">>

\* C4: the normalized table never holds two rows with the same content hash, and
\* no row is inserted into it by a step of a run on a month whose ledger entry
\* is completed.
C4_HashUniqueAndIdempotent ==
    /\ [](\A h \in BagToSet(trips) : CopiesIn(h, trips) = 1)
    /\ [][\A m \in Months :
            (Completed(m) /\ (Checking(m) \/ Processing(m))) => trips' = trips]_vars

\* C4 case: the second run is loading a month whose entry the first run had
\* completed, and its first chunk has stored a row that was not in the table.
C4_Witness ==
    /\ run = 2 /\ Processing(M1) /\ pc = "load" /\ chunk_no = 2
    /\ "completed" \in {ledger[M1][i] : i \in 1..Len(ledger[M1])}
    /\ chunk_results.loaded > 0

\* ------------------------------------------------ the chunk about to be loaded
\* The loop of load_single_parquet_file is about to load chunk chunk_no.
LoadingChunk ==
    /\ pc = "load"
    /\ disk[month] = "complete"
    /\ chunk_no <= total_chunks(Len(source[month]), chunk_size)

GivenChunk == chunk_of(read_parquet(source[month]), chunk_no, chunk_size)
CurrentChunk == add_row_hash_column(GivenChunk)
PreviousChunk == add_row_hash_column(chunk_of(read_parquet(source[month]), chunk_no - 1, chunk_size))

BulkInsertFails(df) == \E i \in 1..Len(df) : Refused(trips, df, i)
FirstRefused(df) ==
    CHOOSE k \in 1..Len(df) :
        Refused(trips, df, k) /\ \A j \in 1..(k - 1) : ~Refused(trips, df, j)
UniquenessViolation(df) == BulkInsertFails(df) /\ df[FirstRefused(df)].rejects = "none"
OtherViolation(df) == BulkInsertFails(df) /\ df[FirstRefused(df)].rejects # "none"

\* The invalid-record store gains exactly one record of row i of chunk df.
Quarantined(df, i, types) ==
    \E rec \in BagToSet(invalid') :
        /\ rec.source_file = month /\ rec.chunk_number = chunk_no
        /\ rec.row_hash = df[i].row_hash
        /\ rec.error_type \in types /\ rec.error_message # {}
        /\ CopiesIn(rec, invalid') = CopiesIn(rec, invalid) + 1

\* C5: when the bulk insert of a chunk fails with a uniqueness violation on
\* row_hash, the chunk is classified duplicate as a whole, with no row-level
\* retry: the call returns loaded = 0, duplicates = the size of the chunk (the
\* chunk as inserted, one row per content hash), invalid = 0; exactly one
\* quality record is appended, with rows_inserted = 0 and rows_duplicates = the
\* size of the chunk; the normalized table, the fact table and the invalid-record
\* store are unchanged, and no row is counted as loaded.
C5_DuplicateShortCircuit ==
    [][(LoadingChunk /\ UniquenessViolation(CurrentChunk) /\ pc' # "idle") =>
          LET n == Len(CurrentChunk)
          IN  /\ chunk_results' = [loaded |-> 0, star_loaded |-> 0,
                                   duplicates |-> n, invalid |-> 0]
              /\ quality' = quality (+) SetToBag({
                     QualityRecord(month, "chunk_insert", "yellow_taxi_trips",
                                   chunk_no, n, 0, n, 0)})
              /\ trips' = trips /\ fact' = fact /\ invalid' = invalid
              /\ loaded_rows' = loaded_rows]_vars

\* C5 witness: a chunk of two rows has just been classified duplicate as a whole
\* although one of its rows is not stored: no row-level retry took place.
C5_Witness ==
    /\ pc = "load" /\ chunk_no > 1
    /\ chunk_results = [loaded |-> 0, star_loaded |-> 0, duplicates |-> 2, invalid |-> 0]
    /\ \E i \in 1..Len(PreviousChunk) : ~BagIn(PreviousChunk[i].row_hash, trips)
    /\ \E i \in 1..Len(PreviousChunk) : BagIn(PreviousChunk[i].row_hash, trips)
    /\ BagIn(QualityRecord(month, "chunk_insert", "yellow_taxi_trips", chunk_no - 1, 2, 0, 2, 0),
             quality)

\* C6: once a chunk of the current month has been loaded while the connection to
\* the warehouse was lost, no later chunk of that month is attempted, and when
\* the month is finished (the connection being back) its ledger entry, if it has
\* one, is failed.
C6_InfraFailureAbortsMonth ==
    [][(pc = "load" /\ infra_failed) =>
          /\ chunk_no' # chunk_no + 1
          /\ (pc' \in {"check", "end"} /\ db_up) =>
                 ledger'[month] \in {<<>>, <<"failed">>}]_vars

\* C6 witness: the first chunk of the month was loaded without connection, the
\* second chunk was loaded all the same and its rows count for the month.
C6_Witness ==
    /\ pc = "load" /\ infra_failed /\ db_up /\ chunk_no = 3 /\ loaded_rows > 0
    /\ ledger[month] = <<"in_progress">>

\* The outcome of the row-level retry of a row the table's constraints refuse.
ExpectedErrorType(row) ==
    CASE row.rejects = "check" -> "constraint_violation"
      [] row.rejects = "datatype" -> "data_type_error"
      [] OTHER -> "unknown_error"

\* C7: when the bulk insert of a chunk fails for a reason other than a
\* uniqueness violation, every row of the chunk gets exactly one outcome (the
\* counts of inserted, duplicate and invalid rows add up to the chunk); every row
\* the table refuses for its content is written once to the invalid-record store
\* with its error type and the error message; every other row is in the
\* normalized table afterwards (inserted now, or a duplicate); and no record of
\* type duplicate_key is written to the invalid-record store.
C7_RowLevelFallback ==
    [][(LoadingChunk /\ OtherViolation(CurrentChunk) /\ pc' # "idle") =>
          LET df == CurrentChunk
          IN  /\ chunk_results'.loaded + chunk_results'.duplicates
                     + chunk_results'.invalid = Len(df)
              /\ \A i \in 1..Len(df) :
                    IF df[i].rejects # "none"
                    THEN Quarantined(df, i, {ExpectedErrorType(df[i])})
                    ELSE BagIn(df[i].row_hash, trips')
              /\ \A rec \in BagToSet(invalid') : rec.error_type # "duplicate_key"]_vars

\* C7 witness: a chunk whose first row violates a check constraint came back as
\* duplicates as a whole; none of its rows was retried, stored or quarantined.
C7_Witness ==
    /\ pc = "load" /\ chunk_no = 2 /\ run = 1
    /\ PreviousChunk[1].rejects = "check" /\ Len(PreviousChunk) > 1
    /\ chunk_results.duplicates = Len(PreviousChunk)
    /\ trips = EmptyBag /\ invalid = EmptyBag

\* Exactly one row of the chunk violates a constraint of the table; the other
\* rows are valid and not stored yet.
OneBadRow(df) ==
    \E b \in 1..Len(df) :
        /\ df[b].rejects # "none"
        /\ \A i \in 1..Len(df) \ {b} :
              df[i].rejects = "none" /\ valid_mask(WholeCache, df[i]) /\ ~BagIn(df[i].row_hash, trips)

\* C8: when exactly one row of a chunk violates a constraint and the other rows
\* are valid and not yet stored, then after the chunk is processed all the other
\* rows are in the normalized table, the invalid-record store has gained one
\* record, that of the bad row, and the loop goes on to the following chunk.
C8_BadRowNeverAbortsChunk ==
    [][(LoadingChunk /\ OneBadRow(CurrentChunk) /\ pc' # "idle") =>
          LET df == CurrentChunk
              bad == CHOOSE b \in 1..Len(df) : df[b].rejects # "none"
          IN  /\ \A i \in 1..Len(df) \ {bad} : BagIn(df[i].row_hash, trips')
              /\ BagCardinality(invalid') = BagCardinality(invalid) + 1
              /\ Quarantined(df, bad, {ExpectedErrorType(df[bad])})
              /\ pc' = "load" /\ chunk_no' = chunk_no + 1]_vars

\* C8 witness: of a chunk of three rows whose second row is refused for its data
\* type, nothing was stored: the two good rows are lost with the bad one.
C8_Witness ==
    /\ pc = "load" /\ chunk_no = 2 /\ run = 1
    /\ Len(PreviousChunk) = 3 /\ PreviousChunk[2].rejects = "datatype"
    /\ chunk_results.duplicates = 3 /\ chunk_results.loaded = 0
    /\ ~BagIn(PreviousChunk[1].row_hash, trips)

\* The chunk of the C9 case: n distinct rows, none stored yet, none refused by the
\* normalized table, every pickup date inside the window, every vendor, payment
\* type and rate code known.
UnresolvedCase(chunk, df) ==
    /\ Len(df) = Len(chunk)
    /\ \A i \in 1..Len(df) :
          /\ df[i].rejects = "none" /\ ~BagIn(df[i].row_hash, trips) /\ valid_date(df[i])
          /\ ~fact_refuses(WholeCache, TRUE, df[i])

Unresolved(df) == {i \in 1..Len(df) : missing_pickup(WholeCache, df[i]) \/ missing_dropoff(WholeCache, df[i])}

\* C9, as the claim states it: of a chunk of n not-yet-stored rows, k of them
\* with a location id that does not resolve (all dates inside the window), n-k
\* rows go to the normalized table, n-k rows to the fact table, k records tagged
\* missing_dimension_keys to the invalid-record store, and a quality record of
\* the chunk shows rows_attempted = n, rows_inserted = n-k, rows_invalid = k.
C9_AsClaimed ==
    [][(LoadingChunk /\ UnresolvedCase(GivenChunk, CurrentChunk) /\ pc' # "idle") =>
          LET df == CurrentChunk
              n == Len(df)
              k == Cardinality(Unresolved(df))
          IN  /\ BagCardinality(trips') = BagCardinality(trips) + n - k
              /\ BagCardinality(fact') = BagCardinality(fact) + n - k
              /\ BagCardinality(invalid') = BagCardinality(invalid) + k
              /\ \A i \in Unresolved(df) : Quarantined(df, i, {"missing_dimension_keys"})
              /\ \E q \in BagToSet(quality') :
                    /\ CopiesIn(q, quality') > CopiesIn(q, quality)
                    /\ q.source_file = month /\ q.chunk_number = chunk_no
                    /\ q.rows_attempted = n /\ q.rows_inserted = n - k
                    /\ q.rows_invalid = k]_vars

\* C9, amended: of such a chunk all n rows go to the normalized table, the n-k
\* rows whose location ids resolve go to the fact table, the k others get one
\* record each, tagged missing_dimension_keys, in the invalid-record store; the
\* quality record of the normalized table shows rows_attempted = n,
\* rows_inserted = n, rows_invalid = 0 and, when n-k > 0, a second quality
\* record, of the fact table, shows rows_attempted = n, rows_inserted = n-k,
\* rows_invalid = 0; the call returns loaded = n, star_loaded = n-k.
C9_UnresolvedKeysDiverted ==
    [][(LoadingChunk /\ UnresolvedCase(GivenChunk, CurrentChunk) /\ pc' # "idle") =>
          LET df == CurrentChunk
              n == Len(df)
              k == Cardinality(Unresolved(df))
          IN  /\ BagCardinality(trips') = BagCardinality(trips) + n
              /\ \A i \in 1..n : CopiesIn(df[i].row_hash, trips') = 1
              /\ BagCardinality(fact') = BagCardinality(fact) + n - k
              /\ \A i \in 1..n :
                    CopiesIn(star_df_row(WholeCache, df[i]), fact') = IF i \in Unresolved(df) THEN 0 ELSE 1
              /\ BagCardinality(invalid') = BagCardinality(invalid) + k
              /\ \A i \in Unresolved(df) : Quarantined(df, i, {"missing_dimension_keys"})
              /\ quality' = quality
                     (+) SetToBag({QualityRecord(month, "chunk_insert", "yellow_taxi_trips",
                                                 chunk_no, n, n, 0, 0)})
                     (+) (IF n - k > 0
                          THEN SetToBag({QualityRecord(month, "star_schema_insert",
                                                       "fact_taxi_trips", chunk_no, n, n - k, 0, 0)})
                          ELSE EmptyBag)
              /\ chunk_results' = [loaded |-> n, star_loaded |-> n - k,
                                   duplicates |-> 0, invalid |-> 0]]_vars

\* C9 witness: the case n = 3, k = 1; a chunk of three new rows whose second row
\* has an unknown pickup location has just been loaded.
C9_Witness ==
    /\ pc = "load" /\ chunk_no = 2 /\ run = 1
    /\ Len(PreviousChunk) = 3 /\ Unresolved(PreviousChunk) = {2}
    /\ \A i \in 1..3 : valid_date(PreviousChunk[i])
    /\ chunk_results = [loaded |-> 3, star_loaded |-> 2, duplicates |-> 0, invalid |-> 0]
    /\ BagCardinality(trips) = 3 /\ BagCardinality(fact) = 2 /\ BagCardinality(invalid) = 1

\* Number of rows of the file of month m whose content hash is h.
Occurrences(m, h) ==
    Cardinality({i \in 1..Len(source[m]) : calculate_row_hash(source[m][i]) = h})

\* Number of records of the invalid-record store for hash h from the file of m.
InvalidCopies(m, h) ==
    LET recs == {rec \in BagToSet(invalid) : rec.source_file = m /\ rec.row_hash = h}
    IN  BagCardinality([rec \in recs |-> CopiesIn(rec, invalid)])

\* C10: every record of the invalid-record store has a non-empty error type; no
\* row of a file has more records there than the file has rows of that content
\* (never twice); and every stored row that fails the dimension-key or the
\* date-window check of the star-schema loading has a record (never zero times).
C10_QuarantinedExactlyOnce ==
    /\ \A rec \in BagToSet(invalid) : rec.error_type # ""
    /\ \A m \in Months : \A i \in 1..Len(source[m]) :
          LET r == WithHash(source[m][i])
          IN  /\ InvalidCopies(m, r.row_hash) <= Occurrences(m, r.row_hash)
              /\ (BagIn(r.row_hash, trips) /\ ~valid_mask(WholeCache, r)) =>
                     \E rec \in BagToSet(invalid) : rec.row_hash = r.row_hash

\* C10 witness: the second run has loaded again a month that had failed, and the
\* one row of its file is twice in the invalid-record store.
C10_Witness ==
    /\ run = 2 /\ pc = "load" /\ chunk_no = 2
    /\ Len(source[month]) = 1
    /\ InvalidCopies(month, calculate_row_hash(source[month][1])) = 2

\* The surrogate keys of the rows of dim_locations.
LocationKeys ==
    {<<WholeCache.locations[id].location_key>> : id \in DOMAIN WholeCache.locations}

\* The rows of the source files, with their content hash.
SourceRows ==
    UNION {{WithHash(source[m][i]) : i \in 1..Len(source[m])} : m \in Files}

\* A source row that misses a location key or the partition window.
MissesKeyOrWindow(r) ==
    \/ r.pulocationid \notin DimLocationIds \/ r.dolocationid \notin DimLocationIds
    \/ r.tpep_pickup_year < WindowFirstYear \/ r.tpep_pickup_year >= WindowEndYear

\* C11: in every state, every row of the fact table has a pickup and a dropoff
\* location key that are not null and are keys of rows of dim_locations, and a
\* pickup date inside the window [2020, 2030), and a source row that misses a
\* location key or the window has no row in the fact table; and when a chunk load
\* stores such a row in the normalized table, the row has a record in the
\* invalid-record store afterwards, tagged missing_dimension_keys or
\* invalid_date_range.
C11_StarSchemaConsistency ==
    /\ [](/\ \A f \in BagToSet(fact) :
              /\ f.pickup_location_key # <<>> /\ f.pickup_location_key \in LocationKeys
              /\ f.dropoff_location_key # <<>> /\ f.dropoff_location_key \in LocationKeys
              /\ f.pickup_year >= WindowFirstYear /\ f.pickup_year < WindowEndYear
          /\ \A r \in SourceRows :
                MissesKeyOrWindow(r) =>
                    \A f \in BagToSet(fact) : f.original_row_hash # r.row_hash)
    /\ [][(LoadingChunk /\ pc' = "load") =>
            \A i \in 1..Len(CurrentChunk) :
                LET r == CurrentChunk[i]
                IN  (/\ MissesKeyOrWindow(r)
                     /\ ~BagIn(r.row_hash, trips)
                     /\ BagIn(r.row_hash, trips')) =>
                        \E rec \in BagToSet(invalid') :
                            /\ rec.row_hash = r.row_hash
                            /\ rec.error_type \in {"missing_dimension_keys",
                                                    "invalid_date_range"}]_vars

\* C11 witness: the fact table holds rows, and a row with an unknown location
\* and a row dated before the window were both stored in the normalized table
\* and redirected to the invalid-record store.
C11_Witness ==
    /\ fact # EmptyBag
    /\ \E r \in SourceRows :
          /\ r.pulocationid \notin DimLocationIds /\ BagIn(r.row_hash, trips)
          /\ \E rec \in BagToSet(invalid) :
                rec.row_hash = r.row_hash /\ rec.error_type = "missing_dimension_keys"
    /\ \E r \in SourceRows :
          /\ r.tpep_pickup_year < WindowFirstYear /\ BagIn(r.row_hash, trips)
          /\ \E rec \in BagToSet(invalid) :
                rec.row_hash = r.row_hash /\ rec.error_type = "invalid_date_range"

\* The months of the plan of the current run.
Planned == {months_to_load[i] : i \in 1..Len(months_to_load)}

\* C12: when the processing of the current month fails (the download returns no
\* file, or the load returns no row), the ledger holds one failed entry for the
\* month and, if the plan has a later month, the run goes on to it; when the run
\* ends, every month of the plan has an entry, completed or failed.
C12_FailedMonthSurfacesAndRunGoesOn ==
    [][/\ (pc \in {"download", "load"} /\ pc' \in {"check", "end"}
              /\ backfill_config # EmptyConfig /\ ledger'[month] # <<"completed">>) =>
             /\ ledger'[month] = <<"failed">>
             /\ pos < Len(months_to_load) => (pc' = "check" /\ pos' = pos + 1)
       /\ (pc = "end" /\ pc' = "verify" /\ backfill_config # EmptyConfig) =>
             /\ pos = Len(months_to_load)
             /\ \A m \in Planned : ledger[m] \in {<<"completed">>, <<"failed">>}]_vars

\* C12 witness: at the end of a run over two months the download of the first
\* month had failed and the second month was loaded: the first month has no
\* ledger entry at all.
C12_Witness ==
    /\ pc = "end" /\ months_to_load = <<M1, M2>>
    /\ disk[M1] = "absent" /\ ledger[M1] = <<>>
    /\ Completed(M2)

\* Rows of df with a natural key (location, vendor, payment type, rate code)
\* absent from the dimension cache.
CacheMiss(df) ==
    {i \in 1..Len(df) :
        \/ df[i].pulocationid \notin DOMAIN WholeCache.locations
        \/ df[i].dolocationid \notin DOMAIN WholeCache.locations
        \/ df[i].vendorid \notin DOMAIN WholeCache.vendors
        \/ df[i].payment_type \notin DOMAIN WholeCache.payment_types
        \/ df[i].ratecodeid \notin DOMAIN WholeCache.rate_codes}

\* A chunk of new rows that the normalized table accepts, dated inside the window.
FreshChunk(df) ==
    \A i \in 1..Len(df) :
        df[i].rejects = "none" /\ ~BagIn(df[i].row_hash, trips) /\ valid_date(df[i])

\* C13: of a chunk of new, well-dated rows, every row with a natural key absent
\* from the dimension cache (location, vendor, payment type or rate code) gets a
\* record in the invalid-record store and no row in the fact table, and every
\* other row of the chunk gets its row in the fact table.
C13_CacheMissRoutedToInvalidStore ==
    [][(LoadingChunk /\ FreshChunk(CurrentChunk) /\ pc' # "idle") =>
          LET df == CurrentChunk
          IN  \A i \in 1..Len(df) :
                 IF i \in CacheMiss(df)
                 THEN /\ \A f \in BagToSet(fact') : f.original_row_hash # df[i].row_hash
                      /\ \E rec \in BagToSet(invalid') :
                            /\ rec.row_hash = df[i].row_hash
                            /\ CopiesIn(rec, invalid') = CopiesIn(rec, invalid) + 1
                 ELSE \E f \in BagToSet(fact') : f.original_row_hash = df[i].row_hash]_vars

\* C13 witness: a row with an unknown vendor is in the fact table with a vendor
\* key of NULL, and the invalid-record store has no record of it.
C13_Witness ==
    \E f \in BagToSet(fact) :
        /\ f.vendor_key = <<>>
        /\ \A rec \in BagToSet(invalid) : rec.row_hash # f.original_row_hash

\* The tokens of a specification, as a set.
TokensOf(config) == {config[i] : i \in 1..Len(config)}

WellFormed(token) == Len(token) = 2 /\ token[1].kind = "int" /\ token[2].kind = "int"
MonthOf(token) == <<token[1].value, token[2].value>>

\* The planner on the specifications of one to three tokens and on
\* `last_x_months`, at the date of the runs: a comma-separated specification
\* yields exactly the months of its well-formed tokens, a malformed single
\* token and a malformed last_N_months yield the empty plan.
PlannerDropsMalformed ==
    /\ \A config \in PlannerLists :
          LET plan == get_backfill_months(config, current_date)
          IN  /\ Len(config) >= 2 =>
                    {plan[i] : i \in 1..Len(plan)} =
                        {MonthOf(t) : t \in {u \in TokensOf(config) : WellFormed(u)}}
              /\ (Len(config) = 1 /\ ~WellFormed(config[1])) => plan = <<>>
    /\ get_backfill_months(<< <<LastBad>> >>, current_date) = <<>>

EmptySpecStep == backfill_config' = EmptyConfig \/ backfill_config = EmptyConfig

\* C16 as claimed: with an empty specification the planner result is empty and
\* the run does nothing: no file is downloaded, no month is loaded, no trip row
\* and no ledger entry is written, and the run does not end with an error.
C16_AsClaimed ==
    [][EmptySpecStep =>
          /\ get_backfill_months(EmptyConfig, current_date) = <<>>
          /\ disk' = disk /\ ledger' = ledger
          /\ trips' = trips /\ fact' = fact
          /\ pc' # "load"
          /\ exit_code' # <<1>>]_vars

\* C16: the planner returns the empty plan for the empty specification, but
\* load_trip_data does not call it: with an empty specification nothing is
\* downloaded and no ledger entry is written; when yellow_tripdata_2025-01.parquet
\* is in the data directory its rows, and no other row, are loaded into the trip
\* table; when it is not, no row is written and load_trip_data returns False;
\* in both cases main returns True (exit code 0).
C16_EmptySpecLoadsBundledFile ==
    [][EmptySpecStep =>
          /\ get_backfill_months(EmptyConfig, current_date) = <<>>
          /\ disk' = disk /\ ledger' = ledger
          /\ pc = "plan" => /\ months_to_load' = <<>>
                            /\ pc' = IF disk[Legacy] # "absent" THEN "load" ELSE "end"
          /\ disk[Legacy] = "absent" => trips' = trips /\ fact' = fact /\ invalid' = invalid
          /\ \A h \in BagToSet(trips') \ BagToSet(trips) :
                \E i \in 1..Len(source[Legacy]) : h = calculate_row_hash(source[Legacy][i])
          /\ (pc = "end" /\ pc' = "verify" /\ disk[Legacy] = "absent") =>
                trip_result' = <<FALSE>>
          /\ (pc = "verify" /\ pc' = "idle" /\ exit_code' \in {<<0>>, <<1>>}) =>
                exit_code' = <<0>>]_vars

\* C16 witness: a run with the empty specification is at its end and has loaded
\* rows of the bundled file into the trip table; the ledger is empty.
C16_Witness ==
    /\ pc = "end" /\ backfill_config = EmptyConfig
    /\ total_rows > 0 /\ trips # EmptyBag
    /\ \A m \in Files : ledger[m] = <<>>

\* main is in load_trip_data.
TripLoading == pc \in {"plan", "check", "download", "start", "load", "end"}

\* main returns.
MainReturns == pc # "idle" /\ pc' = "idle" /\ exit_code' \in {<<0>>, <<1>>}

\* The tables and files that trip loading writes: the ledger, the trip, fact and
\* invalid-record tables, the partition indexes and the monthly files.
TripData == <<ledger, trips, fact, invalid, index_builds, disk>>

\* C17: when the script directory is missing or holds no script, or the
\* reference data cannot be downloaded or loaded, the run ends there, main
\* returns False (exit code 1), load_trip_data is not called and no ledger row,
\* no trip row and no monthly file is written; load_trip_data starts only from
\* the end of a successful load_taxi_zones that followed a successful
\* execute_sql_scripts, the ledger, the trip tables and the files are written
\* only inside load_trip_data, main never returns from inside load_trip_data,
\* and after load_trip_data, whatever it returned, main returns True (exit
\* code 0).
C17_SetupFailureIsFatal ==
    [][/\ ((pc = "schema" /\ script_dir # "scripts") \/ (pc = "zones" /\ zone_source # "ok")) =>
             /\ pc' = "idle"
             /\ MainReturns => exit_code' = <<1>>
             /\ trip_result' = <<>>
             /\ TripData' = TripData
       /\ (TripLoading' /\ ~TripLoading) =>
             pc = "zones" /\ pc' = "plan" /\ zone_source = "ok" /\ script_dir = "scripts"
       /\ (pc' = "zones" /\ pc # "zones") => (pc = "schema" /\ script_dir = "scripts")
       /\ TripData' # TripData => TripLoading
       /\ (pc = "end" /\ pc' = "verify") => trip_result' = <<total_rows > 0>>
       /\ ((TripLoading \/ pc = "verify") /\ MainReturns) =>
             (pc = "verify" /\ exit_code' = <<0>>)]_vars

\* C17, the part that holds: a setup failure ends the run with exit code 1
\* before load_trip_data is called and before any ledger row, trip row or file
\* is written, and a run whose load_trip_data returns, True or False, ends with
\* exit code 0.
C17_SetupFailureEndsTheRun ==
    [][/\ ((pc = "schema" /\ script_dir # "scripts") \/ (pc = "zones" /\ zone_source # "ok")) =>
             /\ pc' = "idle"
             /\ MainReturns => exit_code' = <<1>>
             /\ trip_result' = <<>>
             /\ TripData' = TripData
       /\ (TripLoading' /\ ~TripLoading) =>
             pc = "zones" /\ pc' = "plan" /\ zone_source = "ok" /\ script_dir = "scripts"
       /\ TripData' # TripData => TripLoading
       /\ (pc = "verify" /\ MainReturns) => exit_code' = <<0>>]_vars

\* C17 case: the first run loaded trip rows; the second run, whose setup had
\* succeeded, ended inside load_trip_data with exit code 1.
C17_Witness ==
    /\ pc = "idle" /\ run = 2
    /\ exit_code = <<1>> /\ trip_result = <<>>
    /\ trips # EmptyBag
    /\ lookup_tables = reload_lookups(StandardZones)
    /\ CopiesIn(dimension_record("dimension_load", "dim_rate_code", 6), quality) = 2

\* The (label, value) pairs of a Series, and its labels in index order.
Pairs(row) == {row[i] : i \in 1..Len(row)}
Labels(row) == [i \in 1..Len(row) |-> row[i].name]

\* Two values are the same value; None, nan and NaT are all the missing value.
SameValue(v, w) == v = w \/ (isna(v) /\ isna(w))

\* C18: two Series with the same (label, value) pairs have the same hash,
\* whatever the order of their columns and whichever path computed the hash.
C18_HashOfThePairsOnly ==
    (digest_2 # <<>> /\ Pairs(series_2) = Pairs(series)) => digest_2 = digest

\* C18 witness: the labels are an int and a str, the hash came from the fallback
\* path, and the same pairs in the other order have another hash.
C18_Witness ==
    /\ digest_2 # <<>> /\ sort_raises(series)
    /\ Pairs(series_2) = Pairs(series)
    /\ digest_2 # digest

\* The values the sensitivity is claimed for: nulls, strs, ints, timestamps.
Claimed(row) == \A i \in 1..Len(row) : row[i].value.type # "float"

\* C19: two Series with the same labels, with values that are nulls, strs, ints
\* or timestamps, and that differ in the value of a column have different
\* hashes.
C19_HashSensitivity ==
    (/\ digest_2 # <<>> /\ Labels(series_2) = Labels(series)
     /\ Claimed(series) /\ Claimed(series_2)
     /\ \E i \in 1..Len(series) : ~SameValue(series[i].value, series_2[i].value))
        => digest_2 # digest

\* C19 witness: two Series that differ only in one column, None in one and the
\* empty str in the other, have the same hash.
C19_Witness ==
    /\ digest_2 # <<>>
    /\ series[1] = series_2[1]
    /\ series[2].value = NoneValue /\ series_2[2].value = Str(<<>>)
    /\ series[2].name = series_2[2].name
    /\ digest_2 = digest

\* The positions in a chunk of the rows that are the first with their hash.
FirstOfTheirHash(chunk) ==
    {i \in 1..Len(chunk) :
        \A j \in 1..(i - 1) : calculate_row_hash(chunk[j]) # calculate_row_hash(chunk[i])}

\* The k-th smallest element of a set of positions.
Kth(S, k) == CHOOSE i \in S : Cardinality({j \in S : j <= i}) = k

\* C20: the rows of a chunk after add_row_hash_column are the rows that are the
\* first with their hash, in file order, so their hashes are pairwise distinct;
\* these are the rows given to the bulk insert: when it succeeds the trip table
\* gains one row per hash of the chunk and the chunk reports that many rows.
C20_FirstOfEachHashKept ==
    [][(LoadingChunk /\ pc' # "idle") =>
          LET firsts == FirstOfTheirHash(GivenChunk)
              df == CurrentChunk
          IN  /\ Len(df) = Cardinality(firsts)
              /\ \A k \in 1..Len(df) : df[k] = WithHash(GivenChunk[Kth(firsts, k)])
              /\ \A i \in 1..Len(df) : \A j \in (i + 1)..Len(df) : df[i].row_hash # df[j].row_hash
              /\ ~BulkInsertFails(df) =>
                    /\ chunk_results'.loaded = Cardinality(firsts)
                    /\ \A i \in 1..Len(GivenChunk) :
                          CopiesIn(calculate_row_hash(GivenChunk[i]), trips') = 1]_vars

\* C20 witness: the chunk G1, G3, G1 of the bundled file has been loaded: two
\* rows were inserted, one for each hash.
C20_Witness ==
    /\ pc = "load" /\ month = Legacy /\ chunk_size = 3 /\ chunk_no = 2
    /\ chunk_results.loaded = 2
    /\ CopiesIn(calculate_row_hash(G1), trips) = 1
    /\ CopiesIn(calculate_row_hash(G3), trips) = 1

\* C21: in a backfill run, when the load of a month that is not the last of the
\* plan returns at least one row, create_performance_indexes is called before
\* the next month is checked; and the call at the end of the run is made only
\* when the last month of the plan loaded rows (its entry is completed).
C21_IndexBuildPerMonth ==
    [][/\ (pc = "load" /\ pc' = "check" /\ backfill_config # EmptyConfig
              /\ disk[month] = "complete" /\ loaded_rows > 0) =>
             index_builds' = index_builds + 1
       /\ (pc = "end" /\ pc' = "verify" /\ months_to_load # <<>>
              /\ index_builds' # index_builds) =>
             Completed(months_to_load[Len(months_to_load)])]_vars

\* C21 witness: the first month of a plan of two is completed, the run is at the
\* check of the second month and no index has been built.
C21_Witness ==
    /\ run = 1 /\ pc = "check" /\ pos = 2
    /\ months_to_load = <<M1, M2>>
    /\ Completed(M1)
    /\ index_builds = 0

\* C22: when load_taxi_zones returns True, the four lookup tables and the four
\* dimension tables hold exactly the rows derived from one reference file, the
\* one just loaded: no row of an earlier refresh is left in them.
C22_FullRefresh ==
    [][(refreshes' # refreshes /\ refreshed' = <<TRUE>>) =>
          \E csv \in ZoneFiles :
              /\ lookup_tables' = reload_lookups(csv)
              /\ dim_tables' = reload_lookups(csv)]_vars

\* C22 case: a refresh has succeeded on a file in which zone 2 is withdrawn or
\* renamed, the lookup table holds the rows of that file, and dim_locations
\* still holds the row of zone 2 of an earlier refresh.
C22_Witness ==
    /\ refreshes >= 2 /\ refreshed = <<TRUE>>
    /\ ZoneRow(2, "zone") \notin lookup_tables.locations
    /\ ZoneRow(2, "zone") \in dim_tables.locations

\* The least of two integers.
Min(a, b) == IF a < b THEN a ELSE b

\* The chunks of a file of which position p (from 1) is a row.
ChunksHolding(df, size, p) ==
    {i \in 1..total_chunks(Len(df), size) :
        \E k \in 1..Len(chunk_of(df, i, size)) : (i - 1) * size + k = p}

\* C23: while a month is loaded, the chunks of its file are consecutive slices in
\* file order: chunk i (from 1) holds, in file order, the rows at the 0-based
\* positions (i-1)*chunk_size .. min(i*chunk_size, n)-1; every row is in exactly
\* one chunk; there are ceil(n / chunk_size) chunks; the chunk given to
\* load_chunk_with_error_handling is the one numbered chunk_no, numbers start at 1
\* and go up by one with every chunk.
C23_ChunksPartitionTheFile ==
    /\ [](LoadingChunk =>
            LET df == read_parquet(source[month])
                n == Len(df)
                total == total_chunks(n, chunk_size)
            IN  /\ total * chunk_size >= n /\ (total - 1) * chunk_size < n
                /\ chunk_no \in 1..total
                /\ \A i \in 1..total :
                      LET chunk == chunk_of(df, i, chunk_size)
                      IN  /\ Len(chunk) = Min(i * chunk_size, n) - (i - 1) * chunk_size
                          /\ \A k \in 1..Len(chunk) : chunk[k] = df[(i - 1) * chunk_size + k]
                /\ \A p \in 1..n : Cardinality(ChunksHolding(df, chunk_size, p)) = 1)
    /\ [][/\ (pc # "load" /\ pc' = "load") => chunk_no' = 1
          /\ (pc = "load" /\ pc' = "load" /\ chunk_no' # chunk_no) =>
                chunk_no' = chunk_no + 1]_vars

\* C23 case: a file of three rows is loaded in chunks of two; the first chunk
\* has been loaded and the second, of one row, is the next.
C23_Witness ==
    /\ LoadingChunk
    /\ Len(source[month]) = 3 /\ chunk_size = 2 /\ chunk_no = 2
    /\ Len(GivenChunk) = 1 /\ GivenChunk[1] = read_parquet(source[month])[3]
    /\ GivenChunk[1].index = 2

\* The statuses of the ledger rows of a month.
Statuses(led, m) == {led[m][i] : i \in 1..Len(led[m])}

\* C24: a step changes the ledger rows of at most one month, the current one; a
\* month without row gets only an in_progress row (start_processing_log); rows are
\* deleted only when they are in_progress or failed and the month is being
\* checked; an in_progress row stays or becomes completed or failed; a failed row
\* stays failed until it is deleted; a completed row is never deleted and never
\* changes.
C24_LedgerTransitions ==
    [][\A m \in Files :
          ledger'[m] # ledger[m] =>
              /\ pc \in {"check", "start", "load"} /\ m = month
              /\ \A other \in Files \ {m} : ledger'[other] = ledger[other]
              /\ "completed" \notin Statuses(ledger, m)
              /\ CASE ledger[m] = <<>> ->
                          pc = "start" /\ ledger'[m] = <<"in_progress">>
                   [] ledger'[m] = <<>> ->
                          pc = "check" /\ Statuses(ledger, m) \subseteq {"in_progress", "failed"}
                   [] OTHER ->
                          /\ pc = "load"
                          /\ ledger[m] = <<"in_progress">>
                          /\ ledger'[m] \in {<<"completed">>, <<"failed">>}]_vars

\* C24 case: the second run is at the end of the reload of a month that has a
\* completed entry; no row was loaded and the connection is up, so that
\* fail_processing_log is the next step and sets every entry of the month failed.
C24_Witness ==
    /\ run = 2 /\ Processing(M1) /\ pc = "load" /\ db_up
    /\ chunk_no > total_chunks(Len(source[M1]), chunk_size)
    /\ loaded_rows = 0
    /\ "completed" \in Statuses(ledger, M1)

\* The file of month m has rows and every one of them is in yellow_taxi_trips.
AllStored(m) ==
    /\ source[m] # <<>>
    /\ \A i \in 1..Len(source[m]) : BagIn(WithHash(source[m][i]).row_hash, trips)

\* C25: when a run of the backfill goes through a month to its end (no kill, the
\* file whole on disk, the connection up) and every row of the file is in the
\* normalized table, the month's entry ends completed: a month whose rows an
\* earlier, killed run had already stored is completed by the retry.
C25_RetryCompletes ==
    [][(/\ pc = "load" /\ pc' \in {"check", "end"}
        /\ backfill_config # EmptyConfig
        /\ disk[month] = "complete"
        /\ AllStored(month)) =>
          ledger'[month] = <<"completed">>]_vars

\* Every row of the file of month m is stored, its entry is not completed and no
\* row of it was loaded by the run in progress.
Stuck(m) ==
    /\ AllStored(m)
    /\ ledger[m] # <<"completed">>
    /\ ~(pc = "load" /\ month = m /\ loaded_rows > 0)

\* C25, what the code does instead: a month in that state stays in it through
\* every step of every run, retries included.
C25_NeverCompleted ==
    [][\A m \in Months : Stuck(m) => Stuck(m)']_vars

\* C25 case: the first run was killed after it had stored the rows of the month;
\* the second run has retried the month to its end and left its entry failed.
C25_Witness ==
    /\ run = 2 /\ pc = "idle" /\ exit_code = <<0>>
    /\ \E m \in Months :
          /\ AllStored(m)
          /\ disk[m] = "complete"
          /\ ledger[m] = <<"failed">>

\* C26: when the load of a month has gone through all the chunks of its file,
\* every row of the file that the normalized table's constraints accept is in
\* the normalized table: a row is left out as a duplicate only when its hash is
\* stored.
C26_NewRowsStored ==
    [][(pc = "load" /\ pc' \in {"check", "end"} /\ disk[month] = "complete") =>
          \A i \in 1..Len(source[month]) :
              source[month][i].rejects = "none" =>
                  BagIn(WithHash(source[month][i]).row_hash, trips')]_vars

\* C26 case: the last chunk of the month held a stored row and a new one, it was
\* counted as duplicates as a whole, and the new row is not stored.
C26_Witness ==
    /\ pc = "load" /\ disk[month] = "complete"
    /\ chunk_no > total_chunks(Len(source[month]), chunk_size)
    /\ chunk_results.duplicates >= 2 /\ chunk_results.loaded = 0
    /\ \E i \in 1..Len(PreviousChunk) :
          /\ PreviousChunk[i].rejects = "none"
          /\ ~BagIn(PreviousChunk[i].row_hash, trips)
    /\ \A i \in 1..Len(PreviousChunk) : PreviousChunk[i].rejects = "none"

\* The rows of fact_taxi_trips of a given original_row_hash, with their copies.
FactRowsOf(h) ==
    {f \in BagToSet(fact) : f.original_row_hash = h}

\* No fact row without its normalized row, and at most one fact row per hash.
FactRowsMatchNormalized ==
    \A f \in BagToSet(fact) :
        /\ BagIn(f.original_row_hash, trips)
        /\ CopiesIn(f, fact) = 1
        /\ FactRowsOf(f.original_row_hash) = {f}

\* Every stored row of the file of a completed month that resolves its two
\* location keys inside the date window has a fact row.
CompletedMonthsHaveFactRows ==
    \A m \in Months :
        Completed(m) =>
            \A i \in 1..Len(source[m]) :
                LET row == WithHash(source[m][i])
                IN  (BagIn(row.row_hash, trips) /\ valid_mask(WholeCache, row)) =>
                        FactRowsOf(row.row_hash) # {}

\* C27: in every state, every fact row has its normalized row, no two fact rows
\* share an original_row_hash, and every normalized row of a completed month
\* whose location keys resolve and whose pickup date is in the window has its
\* fact row, kills between the two inserts of a chunk and retries included.
C27_NormalizedAndFactCorrespond ==
    FactRowsMatchNormalized /\ CompletedMonthsHaveFactRows

\* C27, the half the code keeps: fact rows have their normalized row and are one
\* per hash.
C27_FactSide == [](FactRowsMatchNormalized)

\* C27 case: a month is completed, one of its rows resolves every key inside the
\* window and is stored in the normalized table, and it has no fact row (the
\* fact table accepting rows without vendor, payment type or rate code key).
C27_Witness ==
    /\ ~fact_keys_not_null
    /\ \E m \in Months :
          /\ Completed(m)
          /\ \E i \in 1..Len(source[m]) :
                LET row == WithHash(source[m][i])
                IN  /\ BagIn(row.row_hash, trips)
                    /\ valid_mask(WholeCache, row)
                    /\ FactRowsOf(row.row_hash) = {}

\* Every quality record of the normalized table balances.
QualityRecordsBalance(q) ==
    \A rec \in BagToSet(q) :
        rec.target_table = "yellow_taxi_trips" =>
            rec.rows_attempted = rec.rows_inserted + rec.rows_duplicates + rec.rows_invalid

\* C28: whatever path a chunk load takes, the counts it returns add up to the
\* number of rows of the chunk it was given, and the quality records of the
\* normalized table satisfy rows_attempted = rows_inserted + rows_duplicates +
\* rows_invalid (so that, the chunks partitioning the file, the counts of a month
\* add up to the rows of its file).
C28_CountsAddUp ==
    [][(LoadingChunk /\ pc' = "load") =>
          /\ chunk_results'.loaded + chunk_results'.duplicates + chunk_results'.invalid
                = Len(GivenChunk)
          /\ QualityRecordsBalance(quality')]_vars

\* C28, what the code keeps: the counts add up to the rows of the chunk after
\* add_row_hash_column, one row per hash, and the quality records balance.
C28_CountsOfDistinctRows ==
    [][(LoadingChunk /\ pc' = "load") =>
          /\ chunk_results'.loaded + chunk_results'.duplicates + chunk_results'.invalid
                = Len(CurrentChunk)
          /\ QualityRecordsBalance(quality')]_vars

\* C28 case: a chunk of three rows, two of them identical, has been loaded and
\* the counts returned add up to two.
C28_Witness ==
    /\ pc = "load" /\ chunk_no > 1
    /\ Len(chunk_of(source[month], chunk_no - 1, chunk_size)) = 3
    /\ Len(PreviousChunk) = 2
    /\ chunk_results.loaded + chunk_results.duplicates + chunk_results.invalid = 2

\* C29: every pair of the plan that get_backfill_months returns is a calendar
\* month, its month number between 1 and 12: the tokens `2024-13` and `2024-00`
\* are dropped like any malformed token.
C29_PlanHoldsCalendarMonths ==
    \A i \in 1..Len(months_to_load) :
        months_to_load[i][2] >= 1 /\ months_to_load[i][2] <= 12

\* C29 case: the specification `2024-13,2024-01,2024-00` has been planned and the
\* pairs (2024, 0) and (2024, 13) are work items next to (2024, 1).
C29_Witness ==
    /\ backfill_config = <<Tok(<<2024, 13>>), Tok(M1), Tok(<<2024, 0>>)>>
    /\ months_to_load = <<<<2024, 0>>, M1, <<2024, 13>>>>

\* C30: download_taxi_data hands a file to the load only when the file is whole:
\* a partial file left by an interrupted download is fetched again, not taken
\* as the month's file.
C30_OnlyWholeFilesTaken ==
    [][(pc = "download" /\ pc' = "start") => disk'[month] = "complete"]_vars

\* C30, what the code does instead: a partial file is never replaced, and a
\* month finished over it never ends completed.
C30_PartialFileStays ==
    [][\A m \in Months :
          disk[m] = "partial" =>
              /\ disk'[m] = "partial"
              /\ ledger'[m] # <<"completed">>]_vars

\* C30 case: a download of the month was interrupted in the first run; the
\* second run has taken the partial file as the month's file, has not read a
\* row from it and has left the month failed.
C30_Witness ==
    /\ run = 2 /\ pc = "idle" /\ exit_code = <<0>>
    /\ \E m \in Months : disk[m] = "partial" /\ ledger[m] = <<"failed">>

====
